---- MODULE Spec2Model ----
(***************************************************************************)
(* Unit normalisation of BOQ line items: the units registry, the BOQ       *)
(* documents, and the batch jobs that migrate, normalise and clean up the  *)
(* unit references carried by the items (scripts/*.cjs), together with the *)
(* viewer's display rule (src/pages/BOQs.tsx).                             *)
(*                                                                         *)
(* Strings are sequences of one-character strings, so that length,        *)
(* substring and case conversion are computed.  The JavaScript values      *)
(* undefined and null are the two marker values Absent and Null.           *)
(***************************************************************************)
EXTENDS Integers, Sequences, FiniteSets, TLC

\* ------------------------------------------------------------------------
\* Values
\* ------------------------------------------------------------------------

Absent == <<"undefined">>
Null == <<"null">>

\* JavaScript truthiness of a string-or-missing value
Truthy(v) == v # Absent /\ v # Null /\ v # <<>>

NoId == 0
NoCompany == 0
DanglingId == 99

LowerLetters == <<"a","b","c","d","e","f","g","h","i","j","k","l","m",
                  "n","o","p","q","r","s","t","u","v","w","x","y","z">>
UpperLetters == <<"A","B","C","D","E","F","G","H","I","J","K","L","M",
                  "N","O","P","Q","R","S","T","U","V","W","X","Y","Z">>

toLowerChar(c) ==
    IF \E i \in 1..Len(UpperLetters) : UpperLetters[i] = c
    THEN LowerLetters[CHOOSE i \in 1..Len(UpperLetters) : UpperLetters[i] = c]
    ELSE c

toUpperChar(c) ==
    IF \E i \in 1..Len(LowerLetters) : LowerLetters[i] = c
    THEN UpperLetters[CHOOSE i \in 1..Len(LowerLetters) : LowerLetters[i] = c]
    ELSE c

toLowerCase(s) == [i \in 1..Len(s) |-> toLowerChar(s[i])]
toUpperCase(s) == [i \in 1..Len(s) |-> toUpperChar(s[i])]

\* s.substring(0, n)
substring0(s, n) == IF Len(s) <= n THEN s ELSE SubSeq(s, 1, n)

\* a || b
OrElse(a, b) == IF Truthy(a) THEN a ELSE b

\* obj.key: undefined when the object has no such property
Get(obj, key) == IF key \in DOMAIN obj THEN obj[key] ELSE Absent

\* the strings used as unit tokens, names and abbreviations
S_m3 == <<"m","3">>
S_M3 == <<"M","3">>
S_kg == <<"k","g">>
S_squ == <<"s","q","u">>
S_metres == <<"m","e","t","r","e","s">>
S_squares == <<"S","q","u","a","r","e","s">>
S_empty == <<>>

\* ------------------------------------------------------------------------
\* State
\* ------------------------------------------------------------------------

VARIABLES
    units,      \* the units table, in store order
    boqs,       \* the boqs table, in store order
    nextId,     \* the next identifier uuid_generate_v4() hands out
    orig,       \* the tables before any job ran
    pre,        \* the tables as they were when the last job started
    last,       \* the last job run: its name, exit code and write count
    prev,       \* name and exit code of the job run before the last
    stage,      \* how far the runs so far follow the documented order
                \* migration, normalization, cleanup (each succeeding)
    runs,       \* number of jobs run so far
    report,     \* what the last job printed or exported, when it was the
                \* audit or the export
    proc,       \* a Migration run followed query by query: where it is,
                \* what it holds in memory, what it wrote in its transaction
    arg,        \* input of the pure functions (resolver, viewer)
    out         \* their result

vars == <<units, boqs, nextId, orig, pre, last, prev, stage, runs, report, proc, arg, out>>

Companies == <<1, 2>>

Unit(id, c, name, abbr) ==
    [id |-> id, company_id |-> c, name |-> name, abbreviation |-> abbr]

Item(u, un, uid, ua) ==
    [unit |-> u, unit_name |-> un, unit_id |-> uid, unit_abbreviation |-> ua]

Section(shape, items) == [shape |-> shape, items |-> items]

Boq(id, c, shape, sections) ==
    [id |-> id, company_id |-> c, updated_at |-> 0,
     data |-> [shape |-> shape, sections |-> sections]]

\* ------------------------------------------------------------------------
\* Shared helpers of the batch jobs
\* ------------------------------------------------------------------------

\* Array.prototype.find, given the indices of the elements that satisfy the
\* test: the first of them, 0 when there is none
FindFirst(hits) ==
    IF hits = {} THEN 0 ELSE CHOOSE i \in hits : \A j \in hits : i <= j

RECURSIVE SelectSeq2(_,_,_)
SelectSeq2(list, c, k) ==
    IF k > Len(list) THEN <<>>
    ELSE IF list[k].company_id = c
         THEN <<list[k]>> \o SelectSeq2(list, c, k + 1)
         ELSE SelectSeq2(list, c, k + 1)

\* the query without its WHERE clause
LoadUnitsOfAll(table, companyId) == table

\* SELECT id, name, abbreviation FROM units WHERE company_id = $1
LoadUnits(table, companyId) == SelectSeq2(table, companyId, 1)

\* the query number st.n + 1 is the one the injected fault hits
Faults(st) == st.failAt = st.n + 1

\* ------------------------------------------------------------------------
\* Migration: the body of the item loop
\* ------------------------------------------------------------------------

NameMatches(u, token) ==
    Truthy(u.name) /\ toLowerCase(u.name) = toLowerCase(token)

AbbrMatches(u, token) ==
    Truthy(u.abbreviation) /\ toLowerCase(u.abbreviation) = toLowerCase(token)

\* one find over name OR abbreviation, as the normalization runner does
MatchUnitOnePass(list, token) ==
    FindFirst({ j \in 1..Len(list) : NameMatches(list[j], token)
                                      \/ AbbrMatches(list[j], token) })

\* the two units.find calls: by name first, by abbreviation second
MatchUnit(list, token) ==
    LET byName == FindFirst({ j \in 1..Len(list) : NameMatches(list[j], token) })
    IN  IF byName # 0 THEN byName
        ELSE FindFirst({ j \in 1..Len(list) : AbbrMatches(list[j], token) })

AbbrevLimit == 6
AbbrevPrefix == 3

\* the length test off by one
NewAbbrevStrict(token) ==
    IF Len(token) < AbbrevLimit THEN token
    ELSE toUpperCase(substring0(token, AbbrevPrefix))

\* abbreviation of a unit created from a token
NewAbbrev(token) ==
    IF Len(token) <= AbbrevLimit THEN token
    ELSE toUpperCase(substring0(token, AbbrevPrefix))

\* a units table without the constraint
NoUniqueConstraint(table, companyId, name) == FALSE

\* UNIQUE(company_id, name): the table already holds the pair
UniqueViolation(table, companyId, name) ==
    \E i \in 1..Len(table) : table[i].company_id = companyId /\ table[i].name = name

\* the token read the other way round: item.unit || item.unit_name
UnitTokenUnitFirst(item) == OrElse(item.unit, item.unit_name)

\* item.unit_name || item.unit
UnitToken(item) == OrElse(item.unit_name, item.unit)

Keep(st, item) == [st |-> st, item |-> item, changed |-> FALSE]

\* a creation that does not push the new unit onto the in-memory list
ResolveOrCreateForgetting(companyId, st, item) ==
    LET unitName == UnitToken(item) IN
    IF ~Truthy(unitName) THEN Keep(st, item)
    ELSE LET m == MatchUnit(st.mem, unitName) IN
    IF m # 0
    THEN [st |-> st,
          item |-> [item EXCEPT !.unit_id = st.mem[m].id,
                                !.unit_name = st.mem[m].name,
                                !.unit_abbreviation = OrElse(st.mem[m].abbreviation, Null)],
          changed |-> TRUE]
    ELSE IF Faults(st) \/ UniqueViolation(st.units, companyId, unitName)
         THEN Keep([st EXCEPT !.failed = TRUE], item)
    ELSE LET newUnit == Unit(st.nextId, companyId, unitName, NewAbbrev(unitName)) IN
         [st |-> [st EXCEPT !.units = Append(@, newUnit),
                            !.nextId = @ + 1,
                            !.n = @ + 1],
          item |-> [item EXCEPT !.unit_id = newUnit.id,
                                !.unit_name = newUnit.name,
                                !.unit_abbreviation = OrElse(newUnit.abbreviation, Null)],
          changed |-> TRUE]

\* lines 39-63: the token, the match, the write-back, the insert
ResolveOrCreate(companyId, st, item) ==
    LET unitName == UnitToken(item) IN
    IF ~Truthy(unitName) THEN Keep(st, item)
    ELSE LET m == MatchUnit(st.mem, unitName) IN
    IF m # 0
    THEN [st |-> st,
          item |-> [item EXCEPT !.unit_id = st.mem[m].id,
                                !.unit_name = st.mem[m].name,
                                !.unit_abbreviation = OrElse(st.mem[m].abbreviation, Null)],
          changed |-> TRUE]
    ELSE IF Faults(st) \/ UniqueViolation(st.units, companyId, unitName)
         THEN Keep([st EXCEPT !.failed = TRUE], item)
    ELSE LET newUnit == Unit(st.nextId, companyId, unitName, NewAbbrev(unitName)) IN
         [st |-> [st EXCEPT !.units = Append(@, newUnit),
                            !.mem = Append(@, newUnit),
                            !.nextId = @ + 1,
                            !.n = @ + 1],
          item |-> [item EXCEPT !.unit_id = newUnit.id,
                                !.unit_name = newUnit.name,
                                !.unit_abbreviation = OrElse(newUnit.abbreviation, Null)],
          changed |-> TRUE]

\* the migration without its "already has unit_id" test
MigrateItemNoSkip(companyId, st, item) == ResolveOrCreate(companyId, st, item)

\* a migration that skips an item only when its unit_id names a loaded unit
MigrateItemReResolving(companyId, st, item) ==
    IF \E j \in 1..Len(st.mem) : st.mem[j].id = item.unit_id THEN Keep(st, item)
    ELSE ResolveOrCreate(companyId, st, item)

MigrateItem(companyId, st, item) ==
    IF item.unit_id # NoId THEN Keep(st, item)
    ELSE ResolveOrCreate(companyId, st, item)

\* ------------------------------------------------------------------------
\* Normalization: the body of the item loop
\* ------------------------------------------------------------------------

\* if (item.unit_id): look the unit up by id
ByIdPath(st, item) ==
    LET i == FindFirst({ j \in 1..Len(st.mem) : st.mem[j].id = item.unit_id }) IN
    IF i = 0 THEN Keep(st, item)
    ELSE [st |-> st,
          item |-> [item EXCEPT
               !.unit_abbreviation = OrElse(st.mem[i].abbreviation, st.mem[i].name),
               !.unit_name = st.mem[i].name],
          changed |-> TRUE]

\* the name path that sets unit_id and forgets the abbreviation
ByNamePathIdOnly(st, item) ==
    LET i == FindFirst({ j \in 1..Len(st.mem) : NameMatches(st.mem[j], item.unit_name) }) IN
    IF i = 0 THEN Keep(st, item)
    ELSE [st |-> st,
          item |-> [item EXCEPT !.unit_id = st.mem[i].id],
          changed |-> TRUE]

\* else if (item.unit_name): look the unit up by name
ByNamePath(st, item) ==
    LET i == FindFirst({ j \in 1..Len(st.mem) : NameMatches(st.mem[j], item.unit_name) }) IN
    IF i = 0 THEN Keep(st, item)
    ELSE [st |-> st,
          item |-> [item EXCEPT
               !.unit_id = st.mem[i].id,
               !.unit_abbreviation = OrElse(st.mem[i].abbreviation, st.mem[i].name)],
          changed |-> TRUE]

\* a unit path that creates the unit it does not find, as the migration does
ByUnitPathCreating(st, item) ==
    LET i == FindFirst({ j \in 1..Len(st.mem) : NameMatches(st.mem[j], item.unit)
                                                 \/ AbbrMatches(st.mem[j], item.unit) })
        newUnit == Unit(st.nextId, 1, item.unit, NewAbbrev(item.unit))
    IN  IF i = 0
        THEN [st |-> [st EXCEPT !.units = Append(@, newUnit),
                                !.mem = Append(@, newUnit),
                                !.nextId = @ + 1,
                                !.n = @ + 1],
              item |-> [item EXCEPT !.unit_id = newUnit.id,
                                    !.unit_abbreviation = newUnit.abbreviation,
                                    !.unit_name = newUnit.name],
              changed |-> TRUE]
        ELSE [st |-> st,
              item |-> [item EXCEPT
                   !.unit_id = st.mem[i].id,
                   !.unit_abbreviation = OrElse(st.mem[i].abbreviation, st.mem[i].name),
                   !.unit_name = st.mem[i].name],
              changed |-> TRUE]

\* else if (item.unit): look the unit up by name or abbreviation
ByUnitPath(st, item) ==
    LET i == FindFirst({ j \in 1..Len(st.mem) : NameMatches(st.mem[j], item.unit)
                                                 \/ AbbrMatches(st.mem[j], item.unit) }) IN
    IF i = 0 THEN Keep(st, item)
    ELSE [st |-> st,
          item |-> [item EXCEPT
               !.unit_id = st.mem[i].id,
               !.unit_abbreviation = OrElse(st.mem[i].abbreviation, st.mem[i].name),
               !.unit_name = st.mem[i].name],
          changed |-> TRUE]

\* a normalization that goes on to the legacy fields when unit_id names no
\* loaded unit
NormalizeItemFallingThrough(st, item) ==
    IF Truthy(item.unit_abbreviation) THEN Keep(st, item)
    ELSE IF \E j \in 1..Len(st.mem) : st.mem[j].id = item.unit_id THEN ByIdPath(st, item)
    ELSE IF Truthy(item.unit_name) THEN ByNamePath(st, item)
    ELSE IF Truthy(item.unit) THEN ByUnitPath(st, item)
    ELSE Keep(st, item)

\* a normalization that revisits the items that have an abbreviation
NormalizeItemRevisiting(st, item) ==
    IF item.unit_id # NoId THEN ByIdPath(st, item)
    ELSE IF Truthy(item.unit_name) THEN ByNamePath(st, item)
    ELSE IF Truthy(item.unit) THEN ByUnitPath(st, item)
    ELSE Keep(st, item)

NormalizeItem(st, item) ==
    IF Truthy(item.unit_abbreviation) THEN Keep(st, item)
    ELSE IF item.unit_id # NoId THEN ByIdPath(st, item)
    ELSE IF Truthy(item.unit_name) THEN ByNamePath(st, item)
    ELSE IF Truthy(item.unit) THEN ByUnitPath(st, item)
    ELSE Keep(st, item)

\* ------------------------------------------------------------------------
\* Cleanup: the body of the item loop
\* ------------------------------------------------------------------------

\* the cleanup without its unit_id test
CleanupItemAnyItem(st, item) ==
    IF Truthy(item.unit) \/ Truthy(item.unit_name)
    THEN [st |-> st,
          item |-> [item EXCEPT !.unit = Absent, !.unit_name = Absent],
          changed |-> TRUE]
    ELSE Keep(st, item)

\* a cleanup that waits for the abbreviation before it strips an item
CleanupItemCheckingAbbreviation(st, item) ==
    IF item.unit_id # NoId /\ Truthy(item.unit_abbreviation)
       /\ (Truthy(item.unit) \/ Truthy(item.unit_name))
    THEN [st |-> st,
          item |-> [item EXCEPT !.unit = Absent, !.unit_name = Absent],
          changed |-> TRUE]
    ELSE Keep(st, item)

\* the cleanup that deletes unit and keeps unit_name
CleanupItemUnitOnly(st, item) ==
    IF item.unit_id # NoId /\ (Truthy(item.unit) \/ Truthy(item.unit_name))
    THEN [st |-> st, item |-> [item EXCEPT !.unit = Absent], changed |-> TRUE]
    ELSE Keep(st, item)

CleanupItem(st, item) ==
    IF item.unit_id # NoId /\ (Truthy(item.unit) \/ Truthy(item.unit_name))
    THEN [st |-> st,
          item |-> [item EXCEPT !.unit = Absent, !.unit_name = Absent],
          changed |-> TRUE]
    ELSE Keep(st, item)

\* ------------------------------------------------------------------------
\* The unit cell of the BOQ viewer
\* ------------------------------------------------------------------------

Placeholder == <<"-">>

\* the legacy fields, then the placeholder
LegacyText(it) ==
    IF Truthy(it.unit_name) THEN it.unit_name
    ELSE IF Truthy(it.unit) THEN it.unit
    ELSE Placeholder

\* a cell that reads the legacy fields before the units table
ViewerUnitCellLegacyFirst(it, list) ==
    IF Truthy(it.unit_name) \/ Truthy(it.unit) THEN LegacyText(it)
    ELSE LET i == FindFirst({ j \in 1..Len(list) : list[j].id = it.unit_id }) IN
         IF it.unit_id # NoId /\ i # 0
         THEN OrElse(list[i].abbreviation, list[i].name)
         ELSE Placeholder

ViewerUnitCell(it, list) ==
    LET i == FindFirst({ j \in 1..Len(list) : list[j].id = it.unit_id }) IN
    IF it.unit_id # NoId /\ i # 0
    THEN OrElse(list[i].abbreviation, list[i].name)
    ELSE LegacyText(it)

\* ------------------------------------------------------------------------
\* The loops over items, sections and BOQs, shared by the three jobs
\* ------------------------------------------------------------------------

ItemStep(job, companyId, st, item) ==
    IF st.failed THEN Keep(st, item)
    ELSE CASE job = "migrate" -> MigrateItem(companyId, st, item)
           [] job = "normalize" -> NormalizeItem(st, item)
           [] job = "cleanup" -> CleanupItem(st, item)

RECURSIVE ProcItems(_,_,_,_,_)
ProcItems(job, companyId, items, k, r) ==
    IF k > Len(items) THEN r
    ELSE LET s == ItemStep(job, companyId, r.st, items[k]) IN
         ProcItems(job, companyId, items, k + 1,
                   [st |-> s.st, items |-> Append(r.items, s.item),
                    changed |-> r.changed \/ s.changed])

RECURSIVE ProcSections(_,_,_,_,_)
ProcSections(job, companyId, sections, k, r) ==
    IF k > Len(sections) THEN r
    ELSE IF sections[k].shape # "ok"
    THEN ProcSections(job, companyId, sections, k + 1,
                      [r EXCEPT !.sections = Append(@, sections[k])])
    ELSE LET s == ProcItems(job, companyId, sections[k].items, 1,
                            [st |-> r.st, items |-> <<>>, changed |-> FALSE]) IN
         ProcSections(job, companyId, sections, k + 1,
                      [st |-> s.st,
                       sections |-> Append(r.sections, [sections[k] EXCEPT !.items = s.items]),
                       changed |-> r.changed \/ s.changed])

\* a loop without the guard on the document's shape: reading the sections
\* of such a document throws
ProcBoqThrowing(job, companyId, st, i) ==
    LET b == st.boqs[i] IN
    IF st.failed THEN st
    ELSE IF b.data.shape # "ok" THEN [st EXCEPT !.failed = TRUE]
    ELSE LET r == ProcSections(job, companyId, b.data.sections, 1,
                               [st |-> st, sections |-> <<>>, changed |-> FALSE]) IN
         IF r.st.failed \/ ~r.changed THEN r.st
         ELSE IF Faults(r.st) THEN [r.st EXCEPT !.failed = TRUE]
         ELSE [r.st EXCEPT !.boqs[i].data.sections = r.sections,
                           !.boqs[i].updated_at = @ + 1,
                           !.n = @ + 1]

\* one BOQ: mutate the document in memory, then UPDATE boqs when changed
ProcBoq(job, companyId, st, i) ==
    LET b == st.boqs[i] IN
    IF st.failed \/ b.data.shape # "ok" THEN st
    ELSE LET r == ProcSections(job, companyId, b.data.sections, 1,
                               [st |-> st, sections |-> <<>>, changed |-> FALSE]) IN
         IF r.st.failed \/ ~r.changed THEN r.st
         ELSE IF Faults(r.st) THEN [r.st EXCEPT !.failed = TRUE]
         ELSE [r.st EXCEPT !.boqs[i].data.sections = r.sections,
                           !.boqs[i].updated_at = @ + 1,
                           !.n = @ + 1]

\* the BOQs of one company (all BOQs when all is TRUE), in store order
RECURSIVE ProcBoqs(_,_,_,_,_)
ProcBoqs(job, companyId, all, st, i) ==
    IF i > Len(st.boqs) THEN st
    ELSE IF all \/ st.boqs[i].company_id = companyId
         THEN ProcBoqs(job, companyId, all, ProcBoq(job, companyId, st, i), i + 1)
         ELSE ProcBoqs(job, companyId, all, st, i + 1)

\* for (const comp of companies): load the units, then the company's BOQs
RECURSIVE ProcCompanies(_,_,_)
ProcCompanies(job, st, k) ==
    IF k > Len(Companies) \/ st.failed THEN st
    ELSE ProcCompanies(job,
            ProcBoqs(job, Companies[k], FALSE,
                     [st EXCEPT !.mem = LoadUnits(st.units, Companies[k])], 1),
            k + 1)

\* BEGIN
Begin(failAt) ==
    [units |-> units, boqs |-> boqs, nextId |-> nextId, mem |-> <<>>,
     n |-> 0, failAt |-> failAt, failed |-> FALSE]

\* COMMIT is one more query the fault may hit
AtCommit(st) == IF ~st.failed /\ Faults(st) THEN [st EXCEPT !.failed = TRUE] ELSE st

MigrationRun(failAt) == AtCommit(ProcCompanies("migrate", Begin(failAt), 1))
NormalizationRun(failAt) == AtCommit(ProcCompanies("normalize", Begin(failAt), 1))
CleanupRun(failAt) == AtCommit(ProcBoqs("cleanup", NoCompany, TRUE, Begin(failAt), 1))

\* the documented order of the pipeline: migration, normalization, cleanup
StageAfter(at, job, failed) ==
    IF failed THEN "off"
    ELSE CASE at = "start" /\ job = "migrate" -> "migrated"
           [] at = "migrated" /\ job = "normalize" -> "normalized"
           [] at = "normalized" /\ job = "cleanup" -> "cleaned"
           [] OTHER -> "off"

NoReport == [job |-> "none"]

\* no run is being followed query by query
NoProc == [pc |-> "off"]

\* a run outside a transaction: the writes made before the failure stay
RollbackNothing(st) == [units |-> st.units, boqs |-> st.boqs, nextId |-> st.nextId]

\* catch: ROLLBACK; what the tables hold after it
Rollback(st) == [units |-> units, boqs |-> boqs, nextId |-> nextId]

\* try { ... COMMIT } catch { ROLLBACK; exit(1) }
Finish(job, st) ==
    LET after == IF st.failed THEN Rollback(st)
                 ELSE [units |-> st.units, boqs |-> st.boqs, nextId |-> st.nextId]
    IN  /\ units' = after.units
        /\ boqs' = after.boqs
        /\ nextId' = after.nextId
        /\ pre' = [units |-> units, boqs |-> boqs]
        /\ last' = [job |-> job, exit |-> IF st.failed THEN 1 ELSE 0,
                    failed |-> st.failed, writes |-> st.n]
        /\ prev' = [job |-> last.job, exit |-> last.exit]
        /\ stage' = StageAfter(stage, job, st.failed)
        /\ runs' = runs + 1
        /\ report' = NoReport
        /\ UNCHANGED orig
        /\ UNCHANGED <<proc, arg, out>>

\* ------------------------------------------------------------------------
\* Audit
\* ------------------------------------------------------------------------

SampleLimit == 20

\* list.slice(0, n)
slice0(list, n) == IF Len(list) <= n THEN list ELSE SubSeq(list, 1, n)

\* the items of the sections of a document whose items is a list
WellFormedItems(b) ==
    IF b.data.shape # "ok" THEN {}
    ELSE UNION { { b.data.sections[s].items[k] : k \in 1..Len(b.data.sections[s].items) } :
                 s \in { s \in 1..Len(b.data.sections) : b.data.sections[s].shape = "ok" } }

\* a test that forgets unit_name
HasLegacyUnitOnly(it) == Truthy(Get(it, "unit"))

\* if (it.unit || it.unit_name) hasLegacy = true
HasLegacy(it) == Truthy(Get(it, "unit")) \/ Truthy(Get(it, "unit_name"))

\* if (!it.unit_abbreviation) hasMissingAbbrev = true
MissingAbbrev(it) == ~Truthy(Get(it, "unit_abbreviation"))

\* for (const b of boqs): the two counters and the two lists
RECURSIVE AuditBoqs(_,_,_)
AuditBoqs(tbl, i, acc) ==
    IF i > Len(tbl) THEN acc
    ELSE LET hasLegacy == \E it \in WellFormedItems(tbl[i]) : HasLegacy(it)
             hasMissingAbbrev == \E it \in WellFormedItems(tbl[i]) : MissingAbbrev(it)
             a1 == IF hasLegacy
                   THEN [acc EXCEPT !.withLegacy = @ + 1,
                                    !.legacyList = Append(@, tbl[i].id)]
                   ELSE acc
             a2 == IF hasMissingAbbrev
                   THEN [a1 EXCEPT !.missingAbbrev = @ + 1,
                                   !.missingList = Append(@, tbl[i].id)]
                   ELSE a1
         IN  AuditBoqs(tbl, i + 1, a2)

\* what the audit prints, and its exit code
AuditReport(tbl) ==
    LET a == AuditBoqs(tbl, 1, [withLegacy |-> 0, missingAbbrev |-> 0,
                                legacyList |-> <<>>, missingList |-> <<>>])
    IN  [job |-> "audit",
         total |-> Len(tbl),
         withLegacy |-> a.withLegacy,
         legacySample |-> slice0(a.legacyList, SampleLimit),
         missingAbbrev |-> a.missingAbbrev,
         missingSample |-> slice0(a.missingList, SampleLimit),
         exit |-> 0]

\* an audit that repairs what it finds
AuditRunFixing == [st |-> CleanupRun(0), report |-> AuditReport(boqs)]

\* the audit: one SELECT, the scan, the printing
AuditRun == [st |-> Begin(0), report |-> AuditReport(boqs)]

\* a job that only reads: the tables after it, its output, its exit code
FinishRead(job, r) ==
    /\ units' = r.st.units
    /\ boqs' = r.st.boqs
    /\ nextId' = r.st.nextId
    /\ pre' = [units |-> units, boqs |-> boqs]
    /\ last' = [job |-> job, exit |-> r.report.exit, failed |-> FALSE, writes |-> r.st.n]
    /\ prev' = [job |-> last.job, exit |-> last.exit]
    /\ runs' = runs + 1
    /\ report' = r.report
    /\ UNCHANGED <<orig, stage>>
    /\ UNCHANGED <<proc, arg, out>>

\* ------------------------------------------------------------------------
\* Export
\* ------------------------------------------------------------------------

Digits == <<"0","1","2","3","4","5","6","7","8","9">>

\* a number stored in a document
Num(n) == <<"num", n>>

\* String(n) for a natural number
RECURSIVE NumText(_)
NumText(n) ==
    IF n < 10 THEN <<Digits[n + 1]>>
    ELSE NumText(n \div 10) \o <<Digits[(n % 10) + 1]>>

\* v || ''
OrEmpty(v) == IF Truthy(v) THEN v ELSE <<>>

\* s.replace(/\n/g, ' ')
ReplaceNewlines(s) == [i \in 1..Len(s) |-> IF s[i] = "\n" THEN " " ELSE s[i]]

\* s.replace(/"/g, '""')
RECURSIVE DoubleQuotes(_)
DoubleQuotes(s) ==
    IF s = <<>> THEN <<>>
    ELSE (IF Head(s) = "\"" THEN <<"\"", "\"">> ELSE <<Head(s)>>) \o DoubleQuotes(Tail(s))

\* '"' + s.replace(/"/g, '""') + '"'
Quoted(s) == <<"\"">> \o DoubleQuotes(s) \o <<"\"">>

\* how Array.prototype.join renders an element: '' for null and undefined
ElementText(v) ==
    IF v = Absent \/ v = Null THEN <<>>
    ELSE IF Len(v) = 2 /\ v[1] = "num" THEN NumText(v[2])
    ELSE v

\* it.rate !== undefined ? it.rate : '', as join renders it
NumberField(v) == IF v # Absent THEN ElementText(v) ELSE <<>>

\* an identifier column: id || ''
IdField(id) == IF id # NoId THEN NumText(id) ELSE <<>>

RECURSIVE Join(_,_)
Join(parts, sep) ==
    IF parts = <<>> THEN <<>>
    ELSE IF Len(parts) = 1 THEN parts[1]
    ELSE parts[1] \o sep \o Join(Tail(parts), sep)

ExportColumns ==
    <<
       <<"b","o","q","_","i","d">>,
       <<"b","o","q","_","n","u","m","b","e","r">>,
       <<"c","o","m","p","a","n","y","_","i","d">>,
       <<"s","e","c","t","i","o","n","_","t","i","t","l","e">>,
       <<"i","t","e","m","_","i","n","d","e","x">>,
       <<"i","t","e","m","_","d","e","s","c","r","i","p","t","i","o","n">>,
       <<"u","n","i","t","_","i","d">>,
       <<"u","n","i","t","_","n","a","m","e">>,
       <<"u","n","i","t","_","a","b","b","r","e","v","i","a","t","i","o","n">>,
       <<"r","a","t","e">>,
       <<"q","u","a","n","t","i","t","y">>,
       <<"l","i","n","e","_","t","o","t","a","l">>
    >>

\* the row of one item; ii is the zero-based index in its section
ExportRow(b, sec, ii, it) ==
    << NumText(b.id),
       ReplaceNewlines(OrEmpty(Get(b, "number"))),
       IdField(b.company_id),
       ReplaceNewlines(OrEmpty(Get(sec, "title"))),
       NumText(ii),
       Quoted(OrEmpty(Get(it, "description"))),
       IdField(Get(it, "unit_id")),
       Quoted(OrEmpty(Get(it, "unit_name"))),
       Quoted(OrEmpty(Get(it, "unit_abbreviation"))),
       NumberField(Get(it, "rate")),
       NumberField(Get(it, "quantity")),
       NumberField(Get(it, "line_total")) >>

RECURSIVE ExportItems(_,_,_)
ExportItems(b, sec, k) ==
    IF k > Len(sec.items) THEN <<>>
    ELSE <<Join(ExportRow(b, sec, k - 1, sec.items[k]), <<",">>)>>
         \o ExportItems(b, sec, k + 1)

RECURSIVE ExportSections(_,_)
ExportSections(b, k) ==
    IF k > Len(b.data.sections) THEN <<>>
    ELSE IF b.data.sections[k].shape # "ok" THEN ExportSections(b, k + 1)
    ELSE ExportItems(b, b.data.sections[k], 1) \o ExportSections(b, k + 1)

RECURSIVE ExportBoqs(_,_)
ExportBoqs(tbl, i) ==
    IF i > Len(tbl) THEN <<>>
    ELSE IF tbl[i].data.shape # "ok" THEN ExportBoqs(tbl, i + 1)
    ELSE ExportSections(tbl[i], 1) \o ExportBoqs(tbl, i + 1)

\* the file written: the header and the rows, joined by newlines
ExportReport(tbl) ==
    [job |-> "export",
     csv |-> Join(<<Join(ExportColumns, <<",">>)>> \o ExportBoqs(tbl, 1), <<"\n">>),
     exit |-> 0]

\* the export: one SELECT, the flattening, the file
ExportRun == [st |-> Begin(0), report |-> ExportReport(boqs)]

\* ------------------------------------------------------------------------
\* Initial states
\* ------------------------------------------------------------------------

MaxUnits == 1
MaxFail == 3
MaxRuns == 3

\* name and abbreviation of the units the registry may start with
UnitKinds == { <<1, S_m3, Null>>, <<1, S_empty, Null>>, <<2, S_M3, S_m3>> }

RECURSIVE UnitTables(_)
UnitTables(n) ==
    IF n = 0 THEN { <<>> }
    ELSE LET shorter == UnitTables(n - 1) IN
         shorter \cup
         { Append(t, Unit(Len(t) + 1, k[1], k[2], k[3])) :
             <<t, k>> \in { <<t, k>> \in shorter \X UnitKinds :
                 /\ Len(t) = n - 1
                 /\ \A i \in 1..Len(t) :
                        ~(t[i].company_id = k[1] /\ t[i].name = k[2]) } }

FirstItems ==
    { Item(u, un, uid, ua) : u \in {Absent, S_m3}, un \in {Absent, S_M3},
                             uid \in {NoId, 1, DanglingId}, ua \in {Absent, S_m3} }

SecondItems == { <<>>, <<Item(S_m3, Absent, NoId, Absent)>>,
                 <<Item(S_squares, Absent, NoId, Absent)>> }

NoJob == [job |-> "none", exit |-> 0]

Init ==
    /\ units \in UnitTables(MaxUnits)
    /\ \E it \in FirstItems, more \in SecondItems :
         boqs = << Boq(1, 1, "null", <<>>),
                   Boq(2, 1, "ok", << Section("items_not_list", <<>>),
                                      Section("ok", <<it>> \o more) >>),
                   Boq(3, 2, "ok", << Section("ok", <<Item(S_m3, Absent, NoId, Absent)>>) >>),
                   Boq(4, NoCompany, "ok", << Section("ok", <<Item(S_m3, Absent, NoId, Absent)>>) >>),
                   Boq(5, 1, "sections_not_list", <<>>) >>
    /\ nextId = Len(units) + 1
    /\ orig = [units |-> units, boqs |-> boqs]
    /\ pre = [units |-> units, boqs |-> boqs]
    /\ last = [job |-> "none", exit |-> 0, failed |-> FALSE, writes |-> 0]
    /\ prev = NoJob
    /\ stage = "start"
    /\ runs = 0
    /\ report = NoReport
    /\ proc = NoProc
    /\ arg = <<>>
    /\ out = <<>>

\* ------------------------------------------------------------------------
\* The jobs
\* ------------------------------------------------------------------------

Migrate ==
    /\ runs < MaxRuns
    /\ \E failAt \in 0..MaxFail : Finish("migrate", MigrationRun(failAt))
Normalize ==
    /\ runs < MaxRuns
    /\ \E failAt \in 0..MaxFail : Finish("normalize", NormalizationRun(failAt))
Cleanup ==
    /\ runs < MaxRuns
    /\ \E failAt \in 0..MaxFail : Finish("cleanup", CleanupRun(failAt))

Next == Migrate \/ Normalize \/ Cleanup

Spec == Init /\ [][Next]_vars

\* ------------------------------------------------------------------------
\* The five jobs, the audit and the export among them, when no query fails
\* ------------------------------------------------------------------------

MigrateOk ==
    /\ runs < MaxRuns
    /\ Finish("migrate", MigrationRun(0))
NormalizeOk ==
    /\ runs < MaxRuns
    /\ Finish("normalize", NormalizationRun(0))
CleanupOk ==
    /\ runs < MaxRuns
    /\ Finish("cleanup", CleanupRun(0))
Audit ==
    /\ runs < MaxRuns
    /\ FinishRead("audit", AuditRun)
Export ==
    /\ runs < MaxRuns
    /\ FinishRead("export", ExportRun)

NextPipeline == MigrateOk \/ NormalizeOk \/ CleanupOk \/ Audit \/ Export

SpecPipeline == Init /\ [][NextPipeline]_vars

\* ------------------------------------------------------------------------
\* The three jobs, no query failing, while units are deleted in the Units
\* page (useDeleteUnit)
\* ------------------------------------------------------------------------

\* the table without its row number i
RemoveAt(tbl, i) == SubSeq(tbl, 1, i - 1) \o SubSeq(tbl, i + 1, Len(tbl))

\* supabase.from('units').delete().eq('id', id): nothing ties the items
\* that carry the id to the row, so they keep it
DeleteUnit ==
    /\ runs < MaxRuns
    /\ \E i \in 1..Len(units) : units' = RemoveAt(units, i)
    /\ pre' = [units |-> units, boqs |-> boqs]
    /\ last' = [job |-> "delete", exit |-> 0, failed |-> FALSE, writes |-> 1]
    /\ prev' = [job |-> last.job, exit |-> last.exit]
    /\ stage' = StageAfter(stage, "delete", FALSE)
    /\ runs' = runs + 1
    /\ report' = NoReport
    /\ UNCHANGED <<boqs, nextId, orig, proc, arg, out>>

NextDelete == MigrateOk \/ NormalizeOk \/ CleanupOk \/ DeleteUnit

SpecDelete == Init /\ [][NextDelete]_vars

\* ------------------------------------------------------------------------
\* The item step of the migration and the viewer's cell, on their own
\* ------------------------------------------------------------------------

MaxList == 2

Tokens == { S_m3, S_M3, S_squ, S_metres, S_squares, S_kg }

ListKinds == { <<n, a>> : n \in {S_m3, S_M3, S_squares, S_empty},
                          a \in {Null, S_empty, S_m3, S_squ} }

\* the unit lists of one company, of at most n units, names distinct
RECURSIVE UnitLists(_)
UnitLists(n) ==
    IF n = 0 THEN { <<>> }
    ELSE LET shorter == UnitLists(n - 1) IN
         shorter \cup
         { Append(t, Unit(Len(t) + 1, 1, k[1], k[2])) :
             <<t, k>> \in { <<t, k>> \in shorter \X ListKinds :
                 /\ Len(t) = n - 1
                 /\ \A i \in 1..Len(t) : t[i].name # k[1] } }

ResolverItems ==
    { Item(t, Absent, NoId, Absent) : t \in Tokens }
    \cup { Item(S_kg, t, NoId, Absent) : t \in Tokens }
    \cup { Item(S_m3, un, NoId, Absent) : un \in {S_empty, Null} }

ViewerItems ==
    { Item(u, un, uid, Absent) : u \in {Absent, S_kg},
                                 un \in {Absent, Null, S_empty, S_M3},
                                 uid \in {NoId, 1, 2, DanglingId} }

Idle ==
    /\ units = <<>>
    /\ boqs = <<>>
    /\ nextId = 1
    /\ orig = [units |-> <<>>, boqs |-> <<>>]
    /\ pre = [units |-> <<>>, boqs |-> <<>>]
    /\ last = [job |-> "none", exit |-> 0, failed |-> FALSE, writes |-> 0]
    /\ prev = NoJob
    /\ stage = "start"
    /\ runs = 0
    /\ report = NoReport
    /\ proc = NoProc

Store == <<units, boqs, nextId, orig, pre, last, prev, stage, runs, report, proc>>

\* one item of company 1 meets the in-memory unit list of the company
InitItem ==
    /\ Idle
    /\ arg \in [item : ResolverItems, list : UnitLists(MaxList)]
    /\ out = <<>>

MigrateOneItem ==
    /\ out = <<>>
    /\ out' = << MigrateItem(1,
                    [units |-> arg.list, boqs |-> <<>>, nextId |-> Len(arg.list) + 1,
                     mem |-> arg.list, n |-> 0, failAt |-> 0, failed |-> FALSE],
                    arg.item) >>
    /\ UNCHANGED <<Store, arg>>

NextItem == MigrateOneItem

SpecItem == InitItem /\ [][NextItem]_vars

\* one item that has only the legacy unit field meets the unit list the
\* normalization runner loaded for the company
LegacyItems == { Item(t, Absent, NoId, Absent) : t \in Tokens }

InitNormalizeItem ==
    /\ Idle
    /\ arg \in [item : LegacyItems, list : UnitLists(MaxList)]
    /\ out = <<>>

NormalizeOneItem ==
    /\ out = <<>>
    /\ out' = << NormalizeItem(
                    [units |-> arg.list, boqs |-> <<>>, nextId |-> Len(arg.list) + 1,
                     mem |-> arg.list, n |-> 0, failAt |-> 0, failed |-> FALSE],
                    arg.item) >>
    /\ UNCHANGED <<Store, arg>>

NextNormalizeItem == NormalizeOneItem

SpecNormalizeItem == InitNormalizeItem /\ [][NextNormalizeItem]_vars

\* the viewer renders one item against the units of the company
InitViewer ==
    /\ Idle
    /\ arg \in [item : ViewerItems, list : UnitLists(MaxList)]
    /\ out = <<>>

RenderCell ==
    /\ out = <<>>
    /\ out' = << ViewerUnitCell(arg.item, arg.list) >>
    /\ UNCHANGED <<Store, arg>>

NextViewer == RenderCell

SpecViewer == InitViewer /\ [][NextViewer]_vars

\* ------------------------------------------------------------------------
\* The PDF generator's row for one item (utils/boqPdfGenerator.ts)
\* ------------------------------------------------------------------------

PdfFallback == <<"I", "t", "e", "m">>

\* v ?? d, then safeN: a number, else 0
NumberOr(v, d) ==
    LET w == IF v = Absent \/ v = Null THEN d ELSE v IN
    IF Len(w) = 2 /\ w[1] = "num" THEN w[2] ELSE 0

\* lines 40-50: the flat row handed to generatePDF
PdfRow(it) ==
    LET qty == NumberOr(Get(it, "quantity"), Num(1))
        rate == NumberOr(Get(it, "rate"),
                         IF Truthy(Get(it, "amount")) THEN Get(it, "amount") ELSE Num(0))
        amount == NumberOr(Get(it, "amount"), Num(qty * rate))
    IN  [description |-> Get(it, "description"),
         quantity |-> qty,
         unit_price |-> rate,
         line_total |-> amount,
         unit_of_measure |-> OrElse(Get(it, "unit_name"), OrElse(Get(it, "unit"), PdfFallback)),
         unit_abbreviation |-> OrEmpty(Get(it, "unit_abbreviation"))]

PdfItems ==
    { [it EXCEPT !.unit_abbreviation = ua] : it \in ViewerItems, ua \in {Absent, S_m3} }

InitPdf ==
    /\ Idle
    /\ arg \in [item : PdfItems, list : UnitLists(MaxList)]
    /\ out = <<>>

DownloadPdf ==
    /\ out = <<>>
    /\ out' = << PdfRow(arg.item) >>
    /\ UNCHANGED <<Store, arg>>

NextPdf == DownloadPdf

SpecPdf == InitPdf /\ [][NextPdf]_vars

\* ------------------------------------------------------------------------
\* The audit on its own, on stores of more BOQs than it prints
\* ------------------------------------------------------------------------

MaxBoqs == 22

\* the documents a store holds at some stage of the migration
AuditDocs ==
    { [shape |-> "ok", sections |-> << Section("ok", <<Item(S_m3, Absent, NoId, Absent)>>) >>],
      [shape |-> "ok", sections |-> << Section("ok", <<Item(Absent, S_M3, 1, S_m3)>>) >>],
      [shape |-> "ok", sections |-> << Section("ok", <<Item(Absent, Absent, 1, Absent)>>) >>],
      [shape |-> "ok", sections |-> << Section("ok", <<Item(Absent, Absent, 1, S_m3),
                                                        Item(Absent, Absent, NoId, S_empty)>>) >>],
      [shape |-> "ok", sections |-> << Section("items_not_list", <<>>),
                                       Section("ok", <<Item(Absent, Absent, 1, S_m3)>>) >>],
      [shape |-> "null", sections |-> <<>>] }

\* k BOQs of one document followed by m of another
AuditTables ==
    { [i \in 1..(k + m) |->
          [id |-> i, company_id |-> 1, updated_at |-> 0,
           data |-> IF i <= k THEN d1 ELSE d2]] :
        d1 \in AuditDocs, d2 \in AuditDocs, k \in 0..MaxBoqs, m \in 0..2 }

InitAudit ==
    /\ units = << Unit(1, 1, S_M3, S_m3) >>
    /\ boqs \in AuditTables
    /\ nextId = 2
    /\ orig = [units |-> units, boqs |-> boqs]
    /\ pre = [units |-> units, boqs |-> boqs]
    /\ last = [job |-> "none", exit |-> 0, failed |-> FALSE, writes |-> 0]
    /\ prev = NoJob
    /\ stage = "start"
    /\ runs = 0
    /\ report = NoReport
    /\ proc = NoProc
    /\ arg = <<>>
    /\ out = <<>>

NextAudit == Audit

SpecAudit == InitAudit /\ [][NextAudit]_vars

\* ------------------------------------------------------------------------
\* The BOQ-creation flow (components/boq/CreateBOQModal.tsx)
\* ------------------------------------------------------------------------

\* a row of the form; unit holds the id picked in the select, NoId for ''
FormRow(d, q, u, r) == [description |-> d, quantity |-> q, unit |-> u, rate |-> r]

FormRows ==
    { FormRow(<<"d">>, 1, u, 0) : u \in {NoId, 1, 2, DanglingId} }
    \cup { FormRow(<<>>, 1, 1, 0), FormRow(<<"d">>, 0, 1, 0), FormRow(<<"d">>, 1, 1, -1) }

FormRowLists ==
    { <<>> } \cup { <<r>> : r \in FormRows } \cup { <<r1, r2>> : r1 \in FormRows, r2 \in FormRows }

\* validate(): a client, at least one item, every item described, with a
\* positive quantity and a non-negative rate
validate(form) ==
    /\ form.clientId # NoId
    /\ Len(form.rows) > 0
    /\ \A k \in 1..Len(form.rows) :
          ~(~Truthy(form.rows[k].description)
            \/ form.rows[k].quantity <= 0
            \/ form.rows[k].rate < 0)

\* lines 165-175: the item stored for a row
StoredItem(row, list) ==
    LET i == FindFirst({ j \in 1..Len(list) : list[j].id = row.unit }) IN
    [description |-> row.description,
     quantity |-> Num(row.quantity),
     unit_id |-> row.unit,
     unit_name |-> IF i # 0 THEN list[i].name
                   ELSE IF row.unit # NoId THEN NumText(row.unit) ELSE Null,
     rate |-> Num(row.rate)]

InitCreate ==
    /\ Idle
    /\ arg \in [clientId : {NoId, 1}, rows : FormRowLists, list : UnitLists(MaxList)]
    /\ out = <<>>

\* handleGenerate: validate, build the document, insert the boqs row, hand
\* the document to the PDF generator
handleGenerate ==
    /\ out = <<>>
    /\ validate(arg)
    /\ LET items == [k \in 1..Len(arg.rows) |-> StoredItem(arg.rows[k], arg.list)]
           doc == [shape |-> "ok",
                   sections |-> << [shape |-> "ok", title |-> <<"G","e","n","e","r","a","l">>,
                                    items |-> items] >>]
       IN  /\ boqs' = Append(boqs, [id |-> Len(boqs) + 1, company_id |-> 1,
                                    updated_at |-> 0, data |-> doc])
           /\ out' = << [k \in 1..Len(items) |-> PdfRow(items[k])] >>
    /\ UNCHANGED <<units, nextId, orig, pre, last, prev, stage, runs, report, proc, arg>>

NextCreate == handleGenerate

SpecCreate == InitCreate /\ [][NextCreate]_vars

\* ------------------------------------------------------------------------
\* The export on its own, on documents whose texts hold quotes, commas and
\* newlines and whose numbers may be missing
\* ------------------------------------------------------------------------

S_quote == <<"a", "\"", "b">>
S_comma == <<"a", ",", "b">>
S_newline == <<"a", "\n", "b">>

ExportTitles == { Absent, <<"T">>, S_comma }

ExportItemPool ==
    { [unit |-> Absent, unit_name |-> un, unit_id |-> uid, unit_abbreviation |-> ua,
       description |-> d, rate |-> r, quantity |-> q] :
        un \in {Absent, Null, S_empty, S_m3, S_quote, S_comma, S_newline},
        uid \in {NoId, 1},
        ua \in {Absent, S_m3, <<"\"">>},
        d \in {<<"d">>, S_comma},
        r \in {Absent, Null, Num(0), Num(12)},
        q \in {Absent, Num(1)} }

InitExport ==
    /\ units = <<>>
    /\ \E t \in ExportTitles, it \in ExportItemPool :
          boqs = << [id |-> 1, company_id |-> 1, updated_at |-> 0,
                     data |-> [shape |-> "ok",
                               sections |-> << [shape |-> "ok", title |-> t,
                                                items |-> <<it>>] >>]] >>
    /\ nextId = 1
    /\ orig = [units |-> units, boqs |-> boqs]
    /\ pre = [units |-> units, boqs |-> boqs]
    /\ last = [job |-> "none", exit |-> 0, failed |-> FALSE, writes |-> 0]
    /\ prev = NoJob
    /\ stage = "start"
    /\ runs = 0
    /\ report = NoReport
    /\ proc = NoProc
    /\ arg = <<>>
    /\ out = <<>>

NextExport == Export

SpecExport == InitExport /\ [][NextExport]_vars

\* ------------------------------------------------------------------------
\* Vocabulary of the properties
\* ------------------------------------------------------------------------

\* the items of a boqs table, by BOQ, section and index
Positions(tbl) ==
    UNION { UNION { { <<b, s, k>> : k \in 1..Len(tbl[b].data.sections[s].items) } :
                    s \in 1..Len(tbl[b].data.sections) } :
            b \in 1..Len(tbl) }

ItemAt(tbl, p) == tbl[p[1]].data.sections[p[2]].items[p[3]]

CompanyAt(tbl, p) == tbl[p[1]].company_id

JobOk(r, job) == r.job = job /\ r.exit = 0

\* equal ignoring case, character by character
EqIC(a, b) ==
    /\ Truthy(a) /\ Truthy(b) /\ Len(a) = Len(b)
    /\ \A i \in 1..Len(a) : toLowerChar(a[i]) = toLowerChar(b[i])

\* p comes before q in the order a run walks the items
Before(p, q) ==
    \/ p[1] < q[1]
    \/ p[1] = q[1] /\ p[2] < q[2]
    \/ p[1] = q[1] /\ p[2] = q[2] /\ p[3] < q[3]

\* ------------------------------------------------------------------------
\* A Migration run followed query by query, while a user creates units in
\* the Units page (CreateUnitModal, useCreateUnit)
\* ------------------------------------------------------------------------

\* the items of the well-formed BOQs of a company, in the order the run
\* walks them
WalkOf(tbl, companyId) ==
    LET S == { p \in Positions(tbl) :
                 /\ tbl[p[1]].company_id = companyId
                 /\ tbl[p[1]].data.shape = "ok"
                 /\ tbl[p[1]].data.sections[p[2]].shape = "ok" }
    IN  [k \in 1..Cardinality(S) |->
            CHOOSE p \in S : Cardinality({ q \in S : Before(q, p) }) = k - 1]

\* the units table as a statement of the run sees it: the committed rows
\* and the rows the run inserted itself
SeenUnits == units \o proc.inserted

RaceTokens == { S_m3, S_kg }

RaceItems == { Item(t, Absent, NoId, Absent) : t \in RaceTokens }

InitRace ==
    /\ units \in UnitTables(MaxUnits)
    /\ \E a \in RaceItems, b \in RaceItems :
          boqs = << Boq(1, 1, "ok", << Section("ok", <<a, b>>) >>),
                    Boq(2, 2, "ok", << Section("ok", <<a>>) >>) >>
    /\ nextId = Len(units) + 1
    /\ orig = [units |-> units, boqs |-> boqs]
    /\ pre = [units |-> units, boqs |-> boqs]
    /\ last = [job |-> "none", exit |-> 0, failed |-> FALSE, writes |-> 0]
    /\ prev = NoJob
    /\ stage = "start"
    /\ runs = 0
    /\ report = NoReport
    /\ proc = [pc |-> "load", c |-> 1, mem |-> <<>>, docs |-> boqs, todo |-> <<>>,
               inserted |-> <<>>, changed |-> {}, violated |-> FALSE, exit |-> 0]
    /\ arg = <<>>
    /\ out = <<>>

History == <<orig, pre, last, prev, stage, runs, report, arg, out>>

\* lines 22-26: load the units and the BOQs of the next company
RaceLoad ==
    /\ proc.pc = "load" /\ proc.c <= Len(Companies)
    /\ proc' = [proc EXCEPT !.pc = "items",
                            !.mem = LoadUnits(SeenUnits, Companies[proc.c]),
                            !.todo = WalkOf(proc.docs, Companies[proc.c])]
    /\ UNCHANGED <<units, boqs, nextId, History>>

\* lines 35-64 for one item: skip, match in memory, or INSERT; an INSERT the
\* store rejects throws, and the catch rolls back and exits 1
RaceItem ==
    /\ proc.pc = "items" /\ proc.todo # <<>>
    /\ LET p == Head(proc.todo)
           r == MigrateItem(Companies[proc.c],
                    [units |-> SeenUnits, boqs |-> <<>>, nextId |-> nextId,
                     mem |-> proc.mem, n |-> 0, failAt |-> 0, failed |-> FALSE],
                    ItemAt(proc.docs, p))
       IN  IF r.st.failed
           THEN /\ proc' = [proc EXCEPT !.pc = "done", !.violated = TRUE, !.exit = 1,
                                        !.inserted = <<>>, !.changed = {}]
                /\ UNCHANGED nextId
           ELSE /\ proc' = [proc EXCEPT
                      !.todo = Tail(@),
                      !.mem = r.st.mem,
                      !.inserted = @ \o SubSeq(r.st.units, Len(SeenUnits) + 1, Len(r.st.units)),
                      !.docs[p[1]].data.sections[p[2]].items[p[3]] = r.item,
                      !.changed = IF r.changed THEN @ \cup {p[1]} ELSE @]
                /\ nextId' = r.st.nextId
    /\ UNCHANGED <<units, boqs, History>>

\* the company's BOQs are done (their UPDATEs issued): on to the next company
RaceNext ==
    /\ proc.pc = "items" /\ proc.todo = <<>>
    /\ proc' = [proc EXCEPT !.pc = "load", !.c = @ + 1]
    /\ UNCHANGED <<units, boqs, nextId, History>>

\* line 74: COMMIT makes the run's inserts and updates visible
RaceCommit ==
    /\ proc.pc = "load" /\ proc.c > Len(Companies)
    /\ units' = SeenUnits
    /\ boqs' = [b \in 1..Len(boqs) |->
                  IF b \in proc.changed
                  THEN [boqs[b] EXCEPT !.data = proc.docs[b].data, !.updated_at = @ + 1]
                  ELSE boqs[b]]
    /\ proc' = [proc EXCEPT !.pc = "done", !.inserted = <<>>, !.exit = 0]
    /\ UNCHANGED <<nextId, History>>

\* handleCreate in the Units page: one INSERT, committed at once; the store
\* rejects a (company_id, name) it already holds
UserCreatesUnit ==
    /\ \E c \in {1, 2}, name \in RaceTokens, abbr \in {Null} :
          /\ ~UniqueViolation(SeenUnits, c, name)
          /\ units' = Append(units, Unit(nextId, c, name, abbr))
          /\ nextId' = nextId + 1
    /\ UNCHANGED <<boqs, proc, History>>

NextRace == RaceLoad \/ RaceItem \/ RaceNext \/ RaceCommit \/ UserCreatesUnit

SpecRace == InitRace /\ [][NextRace]_vars

\* ------------------------------------------------------------------------
\* A Normalization run and a Cleanup run at the same time, each in its own
\* transaction, followed query by query.  Neither script sets an isolation
\* level: a SELECT sees what is committed and what its own transaction
\* wrote, an UPDATE of a row another open transaction has updated waits for
\* that transaction to end and then overwrites the row.
\* ------------------------------------------------------------------------

OverlapJobs == {"normalize", "cleanup"}

OtherJob(job) == IF job = "normalize" THEN "cleanup" ELSE "normalize"

\* the companies a run loops over: the cleanup reads all BOQs in one query
CompaniesOf(job) == IF job = "cleanup" THEN <<NoCompany>> ELSE Companies

OverlapItems ==
    { Item(S_m3, Absent, 1, Absent), Item(S_m3, Absent, NoId, Absent),
      Item(Absent, S_M3, 1, S_m3), Item(Absent, Absent, 1, Absent) }

Session(job) ==
    [job |-> job, pc |-> "load", c |-> 1, snap |-> <<>>, mem |-> <<>>,
     todo |-> <<>>, written |-> {}, exit |-> 0]

InitOverlap ==
    /\ units \in UnitTables(MaxUnits)
    /\ \E a \in FirstItems, b \in OverlapItems :
          boqs = << Boq(1, 1, "ok", << Section("ok", <<a>>) >>),
                    Boq(2, 1, "ok", << Section("ok", <<b>>) >>) >>
    /\ nextId = Len(units) + 1
    /\ orig = [units |-> units, boqs |-> boqs]
    /\ pre = [units |-> units, boqs |-> boqs]
    /\ last = [job |-> "none", exit |-> 0, failed |-> FALSE, writes |-> 0]
    /\ prev = NoJob
    /\ stage = "start"
    /\ runs = 0
    /\ report = NoReport
    /\ proc = [job \in OverlapJobs |-> Session(job)]
    /\ arg = <<>>
    /\ out = <<>>

\* the rows of a table in the order a SELECT returns them, by index
RECURSIVE RowsOf(_,_,_,_)
RowsOf(tbl, companyId, all, i) ==
    IF i > Len(tbl) THEN <<>>
    ELSE IF all \/ tbl[i].company_id = companyId
         THEN <<i>> \o RowsOf(tbl, companyId, all, i + 1)
         ELSE RowsOf(tbl, companyId, all, i + 1)

\* the SELECTs of a run: the units of the company (the normalization), the
\* BOQs, as committed or as the run itself wrote them
OverlapLoad(job) ==
    LET s == proc[job] IN
    /\ s.pc = "load" /\ s.c <= Len(CompaniesOf(job))
    /\ proc' = [proc EXCEPT ![job] =
          [s EXCEPT !.pc = "rows",
                    !.mem = IF job = "cleanup" THEN <<>>
                            ELSE LoadUnits(units, CompaniesOf(job)[s.c]),
                    !.snap = [b \in 1..Len(boqs) |->
                                 IF b \in s.written THEN s.snap[b] ELSE boqs[b]],
                    !.todo = RowsOf(boqs, CompaniesOf(job)[s.c], job = "cleanup", 1)]]
    /\ UNCHANGED <<units, boqs, nextId, History>>

\* one BOQ: the item loops on the copy read, then the UPDATE when changed;
\* the UPDATE waits while the other run holds the row
OverlapRow(job) ==
    LET s == proc[job]
        o == proc[OtherJob(job)]
    IN
    /\ s.pc = "rows" /\ s.todo # <<>>
    /\ LET i == Head(s.todo)
           r == ProcBoq(job, CompaniesOf(job)[s.c],
                        [units |-> units, boqs |-> s.snap, nextId |-> nextId,
                         mem |-> s.mem, n |-> 0, failAt |-> 0, failed |-> FALSE], i)
       IN  IF r.n = 0
           THEN proc' = [proc EXCEPT ![job].todo = Tail(@)]
           ELSE /\ i \notin o.written
                /\ proc' = [proc EXCEPT ![job] =
                      [s EXCEPT !.todo = Tail(@), !.snap = r.boqs,
                                !.written = @ \cup {i}]]
    /\ UNCHANGED <<units, boqs, nextId, History>>

\* the BOQs of the company are done: on to the next company
OverlapNext(job) ==
    /\ proc[job].pc = "rows" /\ proc[job].todo = <<>>
    /\ proc' = [proc EXCEPT ![job].pc = "load", ![job].c = @ + 1]
    /\ UNCHANGED <<units, boqs, nextId, History>>

\* COMMIT: the rows the run updated become the committed rows
OverlapCommit(job) ==
    LET s == proc[job] IN
    /\ s.pc = "load" /\ s.c > Len(CompaniesOf(job))
    /\ boqs' = [b \in 1..Len(boqs) |->
                  IF b \in s.written
                  THEN [boqs[b] EXCEPT !.data = s.snap[b].data, !.updated_at = @ + 1]
                  ELSE boqs[b]]
    /\ proc' = [proc EXCEPT ![job] = [s EXCEPT !.pc = "done", !.written = {}]]
    /\ UNCHANGED <<units, nextId, History>>

JobLoads == \E job \in OverlapJobs : OverlapLoad(job)
JobRow == \E job \in OverlapJobs : OverlapRow(job)
JobNext == \E job \in OverlapJobs : OverlapNext(job)
JobCommits == \E job \in OverlapJobs : OverlapCommit(job)

NextOverlap == JobLoads \/ JobRow \/ JobNext \/ JobCommits

SpecOverlap == InitOverlap /\ [][NextOverlap]_vars

\* ------------------------------------------------------------------------
\* Two Migration runs at the same time, each in its own transaction,
\* followed query by query.  An INSERT of a (company_id, name) that the other
\* open transaction has inserted waits for that transaction to end; so does
\* an UPDATE of a row the other has updated.
\* ------------------------------------------------------------------------

Runs == {"a", "b"}

OtherRun(s) == IF s = "a" THEN "b" ELSE "a"

MigrationSession ==
    [pc |-> "load", c |-> 1, mem |-> <<>>, docs |-> <<>>, todo |-> <<>>, dirty |-> 0,
     inserted |-> <<>>, written |-> {}, violated |-> FALSE, exit |-> 0]

InitTwo ==
    /\ units \in UnitTables(MaxUnits)
    /\ \E a \in RaceItems, b \in RaceItems :
          boqs = << Boq(1, 1, "ok", << Section("ok", <<a, b>>) >>),
                    Boq(2, 2, "ok", << Section("ok", <<a>>) >>) >>
    /\ nextId = Len(units) + 1
    /\ orig = [units |-> units, boqs |-> boqs]
    /\ pre = [units |-> units, boqs |-> boqs]
    /\ last = [job |-> "none", exit |-> 0, failed |-> FALSE, writes |-> 0]
    /\ prev = NoJob
    /\ stage = "start"
    /\ runs = 0
    /\ report = NoReport
    /\ proc = [s \in Runs |-> MigrationSession]
    /\ arg = <<>>
    /\ out = <<>>

\* lines 22-26: the units and the BOQs of the next company, as committed or
\* as the run itself wrote them
TwoLoad(s) ==
    LET r == proc[s]
        view == [b \in 1..Len(boqs) |-> IF b \in r.written THEN r.docs[b] ELSE boqs[b]]
    IN
    /\ r.pc = "load" /\ r.c <= Len(Companies)
    /\ proc' = [proc EXCEPT ![s] =
          [r EXCEPT !.pc = "items",
                    !.mem = LoadUnits(units \o r.inserted, Companies[r.c]),
                    !.docs = view,
                    !.todo = WalkOf(view, Companies[r.c])]]
    /\ UNCHANGED <<units, boqs, nextId, History>>

\* the item step is about to INSERT a unit named by the item's token
WantsInsert(r, item) ==
    /\ item.unit_id = NoId
    /\ Truthy(UnitToken(item))
    /\ MatchUnit(r.mem, UnitToken(item)) = 0

\* lines 35-64 for one item; a rejected INSERT throws into the catch, which
\* rolls back and exits 1
TwoItem(s) ==
    LET r == proc[s]
        o == proc[OtherRun(s)]
    IN
    /\ r.pc = "items" /\ r.todo # <<>>
    /\ IF r.dirty = 0 THEN TRUE ELSE Head(r.todo)[1] = r.dirty
    /\ LET p == Head(r.todo)
           item == ItemAt(r.docs, p)
           seen == units \o r.inserted
           m == MigrateItem(Companies[r.c],
                    [units |-> seen, boqs |-> <<>>, nextId |-> nextId,
                     mem |-> r.mem, n |-> 0, failAt |-> 0, failed |-> FALSE],
                    item)
       IN  /\ ~(WantsInsert(r, item)
                 /\ \E i \in 1..Len(o.inserted) :
                        /\ o.inserted[i].company_id = Companies[r.c]
                        /\ o.inserted[i].name = UnitToken(item))
           /\ IF m.st.failed
              THEN /\ proc' = [proc EXCEPT ![s] =
                         [r EXCEPT !.pc = "done", !.violated = TRUE, !.exit = 1,
                                   !.inserted = <<>>, !.written = {}, !.dirty = 0]]
                   /\ UNCHANGED nextId
              ELSE /\ proc' = [proc EXCEPT ![s] =
                         [r EXCEPT
                            !.todo = Tail(@),
                            !.mem = m.st.mem,
                            !.inserted = @ \o SubSeq(m.st.units, Len(seen) + 1, Len(m.st.units)),
                            !.docs[p[1]].data.sections[p[2]].items[p[3]] = m.item,
                            !.dirty = IF m.changed THEN p[1] ELSE @]]
                   /\ nextId' = m.st.nextId
    /\ UNCHANGED <<units, boqs, History>>

\* lines 67-70: the items of a changed BOQ are done: UPDATE boqs
TwoUpdate(s) ==
    LET r == proc[s]
        o == proc[OtherRun(s)]
    IN
    /\ r.pc = "items" /\ r.dirty # 0
    /\ IF r.todo = <<>> THEN TRUE ELSE Head(r.todo)[1] # r.dirty
    /\ r.dirty \notin o.written
    /\ proc' = [proc EXCEPT ![s] = [r EXCEPT !.written = @ \cup {r.dirty}, !.dirty = 0]]
    /\ UNCHANGED <<units, boqs, nextId, History>>

\* the BOQs of the company are done: on to the next company
TwoNext(s) ==
    /\ proc[s].pc = "items" /\ proc[s].todo = <<>> /\ proc[s].dirty = 0
    /\ proc' = [proc EXCEPT ![s].pc = "load", ![s].c = @ + 1]
    /\ UNCHANGED <<units, boqs, nextId, History>>

\* line 74: COMMIT
TwoCommit(s) ==
    LET r == proc[s] IN
    /\ r.pc = "load" /\ r.c > Len(Companies)
    /\ units' = units \o r.inserted
    /\ boqs' = [b \in 1..Len(boqs) |->
                  IF b \in r.written
                  THEN [boqs[b] EXCEPT !.data = r.docs[b].data, !.updated_at = @ + 1]
                  ELSE boqs[b]]
    /\ proc' = [proc EXCEPT ![s] =
          [r EXCEPT !.pc = "done", !.inserted = <<>>, !.written = {}, !.exit = 0]]
    /\ UNCHANGED <<nextId, History>>

RunLoads == \E s \in Runs : TwoLoad(s)
RunItem == \E s \in Runs : TwoItem(s)
RunUpdates == \E s \in Runs : TwoUpdate(s)
RunNext == \E s \in Runs : TwoNext(s)
RunCommits == \E s \in Runs : TwoCommit(s)

NextTwo == RunLoads \/ RunItem \/ RunUpdates \/ RunNext \/ RunCommits

SpecTwo == InitTwo /\ [][NextTwo]_vars

\* ------------------------------------------------------------------------
\* C1
\* ------------------------------------------------------------------------

\* C1: a Migration run that directly follows a successful Migration run
\* attempts no write and leaves the units table and every BOQ row as the
\* first run left them.
C1_MigrationTwice ==
    (JobOk(prev, "migrate") /\ last.job = "migrate") =>
        /\ units = pre.units
        /\ boqs = pre.boqs
        /\ last.writes = 0

\* two successful Migration runs in a row, the first of which created a unit
C1_Witness ==
    /\ JobOk(prev, "migrate") /\ JobOk(last, "migrate")
    /\ \E i \in 1..Len(units) : units[i].name = S_squares
    /\ \E p \in Positions(boqs) :
          ItemAt(boqs, p).unit_id # NoId /\ Truthy(ItemAt(boqs, p).unit)

\* ------------------------------------------------------------------------
\* C2
\* ------------------------------------------------------------------------

\* C2: after a successful Cleanup run every item that had unit_id before
\* the run has neither unit nor unit_name, and every item that had no
\* unit_id is exactly as it was.
C2_CleanupSafety ==
    JobOk(last, "cleanup") =>
        \A p \in Positions(boqs) :
            LET was == ItemAt(pre.boqs, p)
                now == ItemAt(boqs, p)
            IN  /\ was.unit_id # NoId =>
                      ~Truthy(now.unit) /\ ~Truthy(now.unit_name)
                /\ was.unit_id = NoId => now = was

\* a Cleanup run that stripped one item and met a legacy item without unit_id
C2_Witness ==
    /\ JobOk(last, "cleanup")
    /\ \E p \in Positions(boqs) :
          /\ ItemAt(pre.boqs, p).unit_id # NoId
          /\ Truthy(ItemAt(pre.boqs, p).unit)
          /\ ~Truthy(ItemAt(boqs, p).unit)
    /\ \E p \in Positions(boqs) :
          /\ ItemAt(pre.boqs, p).unit_id = NoId
          /\ Truthy(ItemAt(pre.boqs, p).unit)

\* ------------------------------------------------------------------------
\* C3
\* ------------------------------------------------------------------------

FullyNormalized(item) ==
    /\ item.unit_id # NoId
    /\ Truthy(item.unit_abbreviation)
    /\ ~Truthy(item.unit) /\ ~Truthy(item.unit_name)

\* C3 as stated: once the Normalization Runner has run twice in a row, every
\* item is fully normalized.
C3_Converges ==
    (JobOk(prev, "normalize") /\ JobOk(last, "normalize")) =>
        \A p \in Positions(boqs) : FullyNormalized(ItemAt(boqs, p))

\* the item's reference leads to a unit of company c that has a display text
Resolvable(item, c) ==
    \E i \in 1..Len(units) :
        /\ units[i].company_id = c
        /\ IF item.unit_id # NoId
           THEN units[i].id = item.unit_id
                /\ (Truthy(units[i].abbreviation) \/ Truthy(units[i].name))
           ELSE IF Truthy(item.unit_name) THEN EqIC(units[i].name, item.unit_name)
           ELSE EqIC(units[i].name, item.unit) \/ EqIC(units[i].abbreviation, item.unit)

\* C3 amended: after a successful Normalization run every item of a
\* company's BOQ has a non-empty unit_abbreviation unless its reference
\* resolves to no unit of the company with a display text; an item the run
\* filled has unit_id; and a run that follows a successful run changes no
\* document and no unit.
C3_FixedPoint ==
    /\ JobOk(last, "normalize") =>
          \A p \in Positions(boqs) :
              LET was == ItemAt(pre.boqs, p)
                  now == ItemAt(boqs, p)
              IN  /\ CompanyAt(boqs, p) # NoCompany =>
                        Truthy(now.unit_abbreviation)
                        \/ ~Resolvable(now, CompanyAt(boqs, p))
                  /\ (~Truthy(was.unit_abbreviation) /\ Truthy(now.unit_abbreviation))
                        => now.unit_id # NoId
    /\ (JobOk(prev, "normalize") /\ last.job = "normalize") =>
          /\ units = pre.units
          /\ \A b \in 1..Len(boqs) : boqs[b].data = pre.boqs[b].data

\* two Normalization runs in a row; an item is filled and keeps its legacy
\* field, another stays without abbreviation
C3_Witness ==
    /\ JobOk(prev, "normalize") /\ JobOk(last, "normalize")
    /\ \E p \in Positions(boqs) :
          /\ ~Truthy(ItemAt(orig.boqs, p).unit_abbreviation)
          /\ Truthy(ItemAt(boqs, p).unit_abbreviation)
          /\ ItemAt(boqs, p).unit_id # NoId
          /\ Truthy(ItemAt(boqs, p).unit)
    /\ \E p \in Positions(boqs) :
          /\ CompanyAt(boqs, p) # NoCompany
          /\ ~Truthy(ItemAt(boqs, p).unit_abbreviation)

\* ------------------------------------------------------------------------
\* C4
\* ------------------------------------------------------------------------

\* C4: a Normalization run leaves set every field of every item that was
\* set before the run.
C4_NeverRegresses ==
    last.job = "normalize" =>
        \A p \in Positions(boqs) :
            LET was == ItemAt(pre.boqs, p)
                now == ItemAt(boqs, p)
            IN  /\ Truthy(was.unit) => Truthy(now.unit)
                /\ Truthy(was.unit_name) => Truthy(now.unit_name)
                /\ was.unit_id # NoId => now.unit_id # NoId
                /\ Truthy(was.unit_abbreviation) => Truthy(now.unit_abbreviation)

\* ------------------------------------------------------------------------
\* C5
\* ------------------------------------------------------------------------

\* C5: a run of any of the three jobs in which a step failed exits non-zero
\* and leaves both tables as they were before the run.
C5_AllOrNothing ==
    last.failed =>
        /\ last.exit = 1
        /\ units = pre.units
        /\ boqs = pre.boqs

\* a Migration run that failed after two writes
C5_Witness ==
    /\ last.job = "migrate" /\ last.failed
    /\ last.writes >= 2

\* ------------------------------------------------------------------------
\* C6
\* ------------------------------------------------------------------------

WrittenId(p) == ItemAt(boqs, p).unit_id # ItemAt(pre.boqs, p).unit_id

\* C6: every unit_id a Migration or Normalization run wrote onto an item
\* names a unit of the company of the item's BOQ, and every unit the run
\* created belongs to the company of a BOQ whose item received it.
C6_CompanyIsolation ==
    last.job \in {"migrate", "normalize"} =>
        /\ \A p \in Positions(boqs) :
              WrittenId(p) =>
                  \E i \in 1..Len(units) :
                      /\ units[i].id = ItemAt(boqs, p).unit_id
                      /\ units[i].company_id = CompanyAt(boqs, p)
        /\ \A i \in (Len(pre.units) + 1)..Len(units) :
              \E p \in Positions(boqs) :
                  /\ WrittenId(p)
                  /\ ItemAt(boqs, p).unit_id = units[i].id
                  /\ CompanyAt(boqs, p) = units[i].company_id

\* a run resolved a token of company 1 while company 2 had a unit of that name
C6_Witness ==
    /\ JobOk(last, "migrate")
    /\ \E p \in Positions(boqs), i \in 1..Len(pre.units) :
          /\ CompanyAt(boqs, p) = 1
          /\ pre.units[i].company_id = 2
          /\ WrittenId(p)
          /\ EqIC(pre.units[i].name, UnitToken(ItemAt(pre.boqs, p)))

\* ------------------------------------------------------------------------
\* C10
\* ------------------------------------------------------------------------

\* before any job ran, the item carried nothing but a legacy unit token of
\* at most six characters, in a BOQ of a company that had no unit
LegacyOnlyItem(p) ==
    LET it == ItemAt(orig.boqs, p) IN
    /\ CompanyAt(orig.boqs, p) # NoCompany
    /\ Truthy(it.unit) /\ Len(it.unit) <= 6
    /\ ~Truthy(it.unit_name) /\ it.unit_id = NoId /\ ~Truthy(it.unit_abbreviation)
    /\ \A i \in 1..Len(orig.units) : orig.units[i].company_id # CompanyAt(orig.boqs, p)

\* C10 as stated: after Migration the item has unit_id and unit_name =
\* unit_abbreviation = the token; the Normalization run that follows changes
\* nothing; the Cleanup run that follows removes unit and leaves unit_name.
C10_EndToEnd ==
    \A p \in Positions(boqs) :
        LegacyOnlyItem(p) =>
            LET token == ItemAt(orig.boqs, p).unit
                now == ItemAt(boqs, p)
            IN  /\ stage = "migrated" => /\ now.unit_id # NoId
                                /\ now.unit_name = token
                                /\ now.unit_abbreviation = token
                /\ stage = "normalized" => now = ItemAt(pre.boqs, p)
                /\ stage = "cleaned" => ~Truthy(now.unit) /\ Truthy(now.unit_name)

\* no item the run walks earlier in the same company carries a token that
\* equals this one ignoring case, as a name or as the abbreviation made of it
FirstOfToken(p) ==
    \A q \in Positions(orig.boqs) :
        (CompanyAt(orig.boqs, q) = CompanyAt(orig.boqs, p) /\ Before(q, p)) =>
            LET other == ItemAt(orig.boqs, q) IN
            \/ other.unit_id # NoId
            \/ ~Truthy(UnitToken(other))
            \/ /\ ~EqIC(UnitToken(other), ItemAt(orig.boqs, p).unit)
               /\ ~EqIC(NewAbbrev(UnitToken(other)), ItemAt(orig.boqs, p).unit)

\* C10 amended: after Migration the item has the id, name and abbreviation
\* of a unit of its company that matches the token, which are the token
\* itself when the item is the first of its company to carry it; the
\* Normalization run that follows changes nothing; the Cleanup run that
\* follows removes both unit and unit_name and keeps unit_id and
\* unit_abbreviation.
C10_EndToEndAmended ==
    \A p \in Positions(boqs) :
        LegacyOnlyItem(p) =>
            LET token == ItemAt(orig.boqs, p).unit
                now == ItemAt(boqs, p)
                was == ItemAt(pre.boqs, p)
            IN  /\ stage = "migrated" =>
                      /\ now.unit_id # NoId
                      /\ \E i \in 1..Len(units) :
                            /\ units[i].id = now.unit_id
                            /\ units[i].company_id = CompanyAt(boqs, p)
                            /\ now.unit_name = units[i].name
                            /\ now.unit_abbreviation = units[i].abbreviation
                            /\ EqIC(units[i].name, token)
                               \/ EqIC(units[i].abbreviation, token)
                      /\ FirstOfToken(p) =>
                            now.unit_name = token /\ now.unit_abbreviation = token
                /\ stage = "normalized" => now = was
                /\ stage = "cleaned" =>
                      /\ now.unit = Absent /\ now.unit_name = Absent
                      /\ now.unit_id = was.unit_id
                      /\ now.unit_abbreviation = was.unit_abbreviation
                      /\ now.unit_id # NoId /\ Truthy(now.unit_abbreviation)

\* the three jobs ran in order on such an item, once as the first of its
\* token and once after an item whose token differs in case only
C10_Witness ==
    /\ stage = "cleaned"
    /\ \E p \in Positions(boqs) :
          /\ LegacyOnlyItem(p) /\ FirstOfToken(p)
          /\ ItemAt(boqs, p).unit_abbreviation = ItemAt(orig.boqs, p).unit
          /\ ItemAt(boqs, p).unit = Absent
    /\ \E p \in Positions(boqs) : LegacyOnlyItem(p) /\ ~FirstOfToken(p)

\* ------------------------------------------------------------------------
\* C7, C8 (under SpecItem)
\* ------------------------------------------------------------------------

NameHits(list, token) == { i \in 1..Len(list) : EqIC(list[i].name, token) }
AbbrHits(list, token) == { i \in 1..Len(list) : EqIC(list[i].abbreviation, token) }

Least(S) == CHOOSE i \in S : \A j \in S : i <= j

\* the unit the two ordered passes select, 0 for NOT_FOUND
Selected(list, token) ==
    IF NameHits(list, token) # {} THEN Least(NameHits(list, token))
    ELSE IF AbbrHits(list, token) # {} THEN Least(AbbrHits(list, token))
    ELSE 0

\* C7: the item receives the id of the first unit whose name equals the
\* token ignoring case, else of the first unit whose abbreviation does, and
\* no unit is created; when neither exists the item receives no listed id.
C7_TwoPasses ==
    out # <<>> =>
        LET token == UnitToken(arg.item)
            e == Selected(arg.list, token)
            r == out[1]
        IN  IF e # 0
            THEN /\ r.item.unit_id = arg.list[e].id
                 /\ r.st.units = arg.list
            ELSE \A i \in 1..Len(arg.list) : r.item.unit_id # arg.list[i].id

\* the token is the abbreviation of the first unit and the name of the
\* second, and the item received the second
C7_Witness ==
    /\ out # <<>>
    /\ Len(arg.list) = 2
    /\ EqIC(arg.list[1].abbreviation, UnitToken(arg.item))
    /\ ~EqIC(arg.list[1].name, UnitToken(arg.item))
    /\ EqIC(arg.list[2].name, UnitToken(arg.item))
    /\ out[1].item.unit_id = arg.list[2].id

\* the abbreviation the creation rule gives a token
RuleAbbrev(token) ==
    IF Len(token) <= 6 THEN token
    ELSE << toUpperChar(token[1]), toUpperChar(token[2]), toUpperChar(token[3]) >>

\* C8: when no unit matches the token, exactly one unit is added, for the
\* company, named by the token verbatim and abbreviated by the token when it
\* has at most 6 characters, else by its first 3 characters in upper case.
C8_CreationRule ==
    (out # <<>> /\ Selected(arg.list, UnitToken(arg.item)) = 0) =>
        LET token == UnitToken(arg.item)
            r == out[1]
        IN  /\ Len(r.st.units) = Len(arg.list) + 1
            /\ SubSeq(r.st.units, 1, Len(arg.list)) = arg.list
            /\ r.st.units[Len(r.st.units)].company_id = 1
            /\ r.st.units[Len(r.st.units)].name = token
            /\ r.st.units[Len(r.st.units)].abbreviation = RuleAbbrev(token)
            /\ r.item.unit_id = r.st.units[Len(r.st.units)].id

\* a token of seven characters created the unit abbreviated SQU
C8_Witness ==
    /\ out # <<>>
    /\ UnitToken(arg.item) = S_squares
    /\ Selected(arg.list, S_squares) = 0
    /\ Len(out[1].st.units) = Len(arg.list) + 1
    /\ out[1].st.units[Len(out[1].st.units)].abbreviation = <<"S", "Q", "U">>

\* ------------------------------------------------------------------------
\* C9 (under SpecViewer)
\* ------------------------------------------------------------------------

\* C9: the cell shows the abbreviation, else the name, of the unit that
\* unit_id names in the company's list, whatever the legacy fields hold;
\* else unit_name; else unit; else "-".
C9_ViewerPrecedence ==
    out # <<>> =>
        LET it == arg.item
            hits == { i \in 1..Len(arg.list) :
                        it.unit_id # NoId /\ arg.list[i].id = it.unit_id }
        IN  IF hits # {}
            THEN \E i \in hits :
                    out[1] = IF Truthy(arg.list[i].abbreviation)
                             THEN arg.list[i].abbreviation
                             ELSE arg.list[i].name
            ELSE IF Truthy(it.unit_name) THEN out[1] = it.unit_name
            ELSE IF Truthy(it.unit) THEN out[1] = it.unit
            ELSE out[1] = <<"-">>

\* unit_id resolves, the legacy fields are present, the abbreviation shows
C9_Witness ==
    /\ out # <<>>
    /\ Truthy(arg.item.unit_name) /\ Truthy(arg.item.unit)
    /\ \E i \in 1..Len(arg.list) :
          /\ arg.list[i].id = arg.item.unit_id
          /\ Truthy(arg.list[i].abbreviation)
          /\ out[1] = arg.list[i].abbreviation
          /\ out[1] # arg.item.unit_name

\* ------------------------------------------------------------------------
\* C11, C12
\* ------------------------------------------------------------------------

CarriedReference(item) ==
    Truthy(item.unit) \/ Truthy(item.unit_name) \/ item.unit_id # NoId

\* C11: once Migration, Normalization and Cleanup have run in that order,
\* each succeeding, every item that carried a unit reference before the
\* first of them is fully normalized.
C11_PipelineNormalizes ==
    stage = "cleaned" =>
        \A p \in Positions(boqs) :
            CarriedReference(ItemAt(orig.boqs, p)) =>
                FullyNormalized(ItemAt(boqs, p))

\* C12: after a successful Migration run every item of every row of the
\* boqs table, whatever the row's company, that has a non-empty unit_name or
\* unit has a unit_id.
C12_EveryRowMigrated ==
    JobOk(last, "migrate") =>
        \A p \in Positions(boqs) :
            Truthy(UnitToken(ItemAt(boqs, p))) => ItemAt(boqs, p).unit_id # NoId

\* ------------------------------------------------------------------------
\* C13
\* ------------------------------------------------------------------------

\* C13: the units table after a Normalization run, successful or failed, is
\* the units table before the run.
C13_UnitsUntouched ==
    last.job = "normalize" => units = pre.units

\* a successful Normalization run wrote a BOQ and left unresolved an item of
\* a company whose token matches no unit
C13_Witness ==
    /\ JobOk(last, "normalize")
    /\ last.writes >= 1
    /\ \E p \in Positions(boqs) :
          LET it == ItemAt(boqs, p) IN
          /\ CompanyAt(boqs, p) # NoCompany
          /\ it.unit_id = NoId /\ ~Truthy(it.unit_name) /\ Truthy(it.unit)
          /\ ~Truthy(it.unit_abbreviation)

\* ------------------------------------------------------------------------
\* C14
\* ------------------------------------------------------------------------

\* C14: after the audit or the export ran, the units table and every boqs
\* row, its document and its updated_at, are what they were before it ran.
C14_ReadOnly ==
    last.job \in {"audit", "export"} =>
        /\ units = pre.units
        /\ boqs = pre.boqs

\* the audit then the export ran on a store that holds an item the cleanup
\* would strip, and both produced their output
C14_Witness ==
    /\ prev.job = "audit" /\ last.job = "export"
    /\ report.job = "export" /\ Len(report.csv) > Len(Join(ExportColumns, <<",">>))
    /\ \E p \in Positions(boqs) :
          ItemAt(boqs, p).unit_id # NoId /\ Truthy(ItemAt(boqs, p).unit)

\* ------------------------------------------------------------------------
\* C15 (under SpecExport)
\* ------------------------------------------------------------------------

\* a CSV reader (RFC 4180): fields separated by commas, records by newlines,
\* a field in double quotes may hold commas, newlines and doubled quotes.
\* A separator counts when an even number of quotes precedes it.
SeparatorsOf(text, sep) ==
    { i \in 1..Len(text) :
        /\ text[i] = sep
        /\ Cardinality({ j \in 1..(i - 1) : text[j] = "\"" }) % 2 = 0 }

SplitAt(text, sep) ==
    LET B == SeparatorsOf(text, sep)
        n == Cardinality(B)
        Nth(k) == CHOOSE i \in B : Cardinality({ j \in B : j < i }) = k - 1
    IN  [k \in 1..(n + 1) |->
            SubSeq(text, IF k = 1 THEN 1 ELSE Nth(k - 1) + 1,
                         IF k = n + 1 THEN Len(text) ELSE Nth(k) - 1)]

RECURSIVE Undouble(_)
Undouble(s) ==
    IF s = <<>> THEN <<>>
    ELSE IF Len(s) >= 2 /\ s[1] = "\"" /\ s[2] = "\""
         THEN <<"\"">> \o Undouble(SubSeq(s, 3, Len(s)))
         ELSE <<s[1]>> \o Undouble(Tail(s))

Unquote(cell) ==
    IF Len(cell) >= 2 /\ cell[1] = "\"" /\ cell[Len(cell)] = "\""
    THEN Undouble(SubSeq(cell, 2, Len(cell) - 1))
    ELSE cell

ParseCsv(text) ==
    LET lines == SplitAt(text, "\n") IN
    [r \in 1..Len(lines) |->
        LET cells == SplitAt(lines[r], ",") IN
        [c \in 1..Len(cells) |-> Unquote(cells[c])]]

AllDigits(s) ==
    s # <<>> /\ \A i \in 1..Len(s) : \E d \in 1..Len(Digits) : Digits[d] = s[i]

RECURSIVE TextNum(_)
TextNum(s) ==
    IF s = <<>> THEN 0
    ELSE 10 * TextNum(SubSeq(s, 1, Len(s) - 1))
         + (CHOOSE d \in 0..9 : Digits[d + 1] = s[Len(s)])

\* what a reader takes a cell for: an empty cell is a missing value
Restore(s) == IF s = <<>> THEN Absent ELSE s
RestoreNum(s) == IF s = <<>> THEN Absent ELSE IF AllDigits(s) THEN Num(TextNum(s)) ELSE s
RestoreId(s) == IF s = <<>> THEN NoId ELSE IF AllDigits(s) THEN TextNum(s) ELSE -1

\* the items the export walks, and the place of each in that walk
ExportedPositions(tbl) ==
    { p \in Positions(tbl) : /\ tbl[p[1]].data.shape = "ok"
                             /\ tbl[p[1]].data.sections[p[2]].shape = "ok" }

Rank(tbl, p) == Cardinality({ q \in ExportedPositions(tbl) : Before(q, p) }) + 1

\* C15: reading the exported file back gives one record per stored item
\* after the header, of twelve cells, whose unit_id, unit_name,
\* unit_abbreviation, rate and quantity cells give back the stored values.
C15_RoundTrip ==
    report.job = "export" =>
        LET recs == ParseCsv(report.csv) IN
        /\ Len(recs) = Cardinality(ExportedPositions(boqs)) + 1
        /\ \A p \in ExportedPositions(boqs) :
              LET rec == recs[Rank(boqs, p) + 1]
                  it == ItemAt(boqs, p)
              IN  /\ Len(rec) = Len(ExportColumns)
                  /\ RestoreId(rec[7]) = it.unit_id
                  /\ Restore(rec[8]) = Get(it, "unit_name")
                  /\ Restore(rec[9]) = Get(it, "unit_abbreviation")
                  /\ RestoreNum(rec[10]) = Get(it, "rate")
                  /\ RestoreNum(rec[11]) = Get(it, "quantity")

\* ------------------------------------------------------------------------
\* C16 (under SpecRace)
\* ------------------------------------------------------------------------

\* C16: a Migration run whose INSERT of a new unit hit the uniqueness
\* constraint does not end in error: it never exits non-zero because of it.
C16_ViolationNotFatal ==
    proc.violated => proc.exit = 0

\* ------------------------------------------------------------------------
\* C17
\* ------------------------------------------------------------------------

Malformed(b) == b.data.shape # "ok"

\* C17: a BOQ whose data is absent or whose sections is not a list, and a
\* section whose items is not a list, (1) makes no job fail: when no query
\* fails, every run of the five jobs exits 0; (2) is never written; (3) does
\* not stop the run: the items of the other sections and BOQs are migrated,
\* normalized, cleaned, counted and exported.
C17_AnomaliesSkipped ==
    /\ ~last.failed /\ last.exit = 0
    /\ \A b \in 1..Len(boqs) :
          /\ Malformed(pre.boqs[b]) => boqs[b] = pre.boqs[b]
          /\ \A k \in 1..Len(boqs[b].data.sections) :
                pre.boqs[b].data.sections[k].shape # "ok" =>
                    boqs[b].data.sections[k] = pre.boqs[b].data.sections[k]
    /\ \A p \in ExportedPositions(boqs) :
          LET it == ItemAt(boqs, p) IN
          /\ (JobOk(last, "migrate") /\ CompanyAt(boqs, p) # NoCompany) =>
                (Truthy(UnitToken(it)) => it.unit_id # NoId)
          /\ (JobOk(last, "normalize") /\ CompanyAt(boqs, p) # NoCompany) =>
                (Truthy(it.unit_abbreviation) \/ ~Resolvable(it, CompanyAt(boqs, p)))
          /\ JobOk(last, "cleanup") =>
                (it.unit_id # NoId => ~Truthy(it.unit) /\ ~Truthy(it.unit_name))
          /\ (last.job = "audit" /\ HasLegacy(it)) =>
                \E k \in 1..Len(report.legacySample) :
                    report.legacySample[k] = boqs[p[1]].id
    /\ last.job = "export" =>
          Len(ParseCsv(report.csv)) = Cardinality(ExportedPositions(boqs)) + 1

\* a successful Migration run passed a BOQ without data and a section whose
\* items is not a list, and gave a unit_id to an item that comes after both
C17_Witness ==
    /\ JobOk(last, "migrate")
    /\ \E p \in ExportedPositions(boqs) :
          /\ WrittenId(p)
          /\ \E b \in 1..(p[1] - 1) :
                Malformed(boqs[b]) /\ boqs[b].company_id = CompanyAt(boqs, p)
          /\ \E k \in 1..(p[2] - 1) : boqs[p[1]].data.sections[k].shape # "ok"

\* ------------------------------------------------------------------------
\* C18 (under SpecPdf)
\* ------------------------------------------------------------------------

\* C18: the unit text of the row the PDF generator hands on, in
\* unit_of_measure or in unit_abbreviation, is the text the viewer's cell
\* shows for the same item and units list.
C18_PdfAsViewer ==
    out # <<>> =>
        LET shown == ViewerUnitCell(arg.item, arg.list) IN
        \/ out[1].unit_of_measure = shown
        \/ out[1].unit_abbreviation = shown

\* ------------------------------------------------------------------------
\* C19 (under SpecAudit)
\* ------------------------------------------------------------------------

\* the rows, by index, that have an item satisfying the test in a section
\* whose items is a list
RowsWithLegacy ==
    { p[1] : p \in { q \in ExportedPositions(boqs) :
                        \/ Truthy(ItemAt(boqs, q).unit)
                        \/ Truthy(ItemAt(boqs, q).unit_name) } }

RowsMissingAbbreviation ==
    { p[1] : p \in { q \in ExportedPositions(boqs) :
                        ~Truthy(ItemAt(boqs, q).unit_abbreviation) } }

\* the sample lists the identifiers of the first rows of R, in store order,
\* and no more than 20 of them
FirstOf(sample, R) ==
    /\ Len(sample) = IF Cardinality(R) <= 20 THEN Cardinality(R) ELSE 20
    /\ \A k \in 1..Len(sample) :
          \E b \in R : /\ Cardinality({ c \in R : c < b }) = k - 1
                       /\ sample[k] = boqs[b].id

\* C19: the audit reports the number of BOQs with an item that has unit or
\* unit_name, the number of BOQs with an item without unit_abbreviation,
\* the first 20 identifiers at most of each, and exits 0.
C19_AuditReport ==
    report.job = "audit" =>
        /\ report.total = Len(boqs)
        /\ report.withLegacy = Cardinality(RowsWithLegacy)
        /\ report.missingAbbrev = Cardinality(RowsMissingAbbreviation)
        /\ FirstOf(report.legacySample, RowsWithLegacy)
        /\ FirstOf(report.missingSample, RowsMissingAbbreviation)
        /\ last.exit = 0

\* more than 20 BOQs have a legacy field, fewer lack the abbreviation, and
\* the audit printed 20 of the former
C19_Witness ==
    /\ report.job = "audit"
    /\ report.withLegacy > 20
    /\ Len(report.legacySample) = 20
    /\ report.missingAbbrev > 0
    /\ report.missingAbbrev < report.withLegacy
    /\ last.exit = 0

\* ------------------------------------------------------------------------
\* C20 (under SpecCreate)
\* ------------------------------------------------------------------------

\* C20: every item of a document stored by the creation flow has unit_id and
\* unit_name set and has neither unit_abbreviation nor unit.
C20_CreatedItems ==
    \A p \in Positions(boqs) :
        LET it == ItemAt(boqs, p) IN
        /\ it.unit_id # NoId
        /\ Truthy(it.unit_name)
        /\ Get(it, "unit_abbreviation") = Absent
        /\ Get(it, "unit") = Absent

\* ------------------------------------------------------------------------
\* C21
\* ------------------------------------------------------------------------

\* the migration has nothing to do on the item: it has unit_id already, or
\* it has neither unit_name nor unit
NothingToMigrate(item) == item.unit_id # NoId \/ ~Truthy(UnitToken(item))

\* C21: a Migration run, successful or failed, leaves every item that has
\* unit_id, and every item that has neither unit_name nor unit, as it was;
\* a BOQ that has only such items keeps its document and its updated_at.
C21_MigrationFrame ==
    last.job = "migrate" =>
        /\ \A p \in Positions(boqs) :
              NothingToMigrate(ItemAt(pre.boqs, p)) => ItemAt(boqs, p) = ItemAt(pre.boqs, p)
        /\ \A b \in 1..Len(boqs) :
              (\A p \in Positions(pre.boqs) :
                   p[1] = b => NothingToMigrate(ItemAt(pre.boqs, p)))
                 => boqs[b] = pre.boqs[b]

\* a successful Migration run wrote another BOQ and passed a BOQ whose item
\* has a unit_id that names no unit, next to a token that names one
C21_Witness ==
    /\ JobOk(last, "migrate")
    /\ last.writes >= 1
    /\ \E p \in Positions(boqs) :
          /\ ItemAt(pre.boqs, p).unit_id = DanglingId
          /\ \E i \in 1..Len(pre.units) :
                /\ pre.units[i].company_id = CompanyAt(boqs, p)
                /\ EqIC(pre.units[i].name, UnitToken(ItemAt(pre.boqs, p)))
          /\ boqs[p[1]] = pre.boqs[p[1]]

\* ------------------------------------------------------------------------
\* C22 (under SpecItem)
\* ------------------------------------------------------------------------

\* C22: for an item without unit_id that has a token, the token is unit_name
\* when the item has one and unit otherwise; after the step the item's
\* unit_id is the id of the unit the token resolves to, or of the unit
\* created for it, its unit_name is that unit's name and its
\* unit_abbreviation is that unit's abbreviation, null when it has none.
C22_WriteBack ==
    (out # <<>> /\ arg.item.unit_id = NoId
       /\ (Truthy(arg.item.unit_name) \/ Truthy(arg.item.unit))) =>
        LET token == IF Truthy(arg.item.unit_name) THEN arg.item.unit_name
                     ELSE arg.item.unit
            e == Selected(arg.list, token)
            r == out[1]
            i == IF e # 0 THEN e ELSE Len(arg.list) + 1
        IN  /\ Len(r.st.units) >= i
            /\ e # 0 => r.st.units = arg.list
            /\ e = 0 => r.st.units[i].name = token
            /\ r.item.unit_id = r.st.units[i].id
            /\ r.item.unit_name = r.st.units[i].name
            /\ r.item.unit_abbreviation =
                  IF Truthy(r.st.units[i].abbreviation)
                  THEN r.st.units[i].abbreviation ELSE Null

\* the item has both fields; its unit_name matched a unit whose name differs
\* from it in case and whose abbreviation is empty, and was replaced
C22_Witness ==
    /\ out # <<>>
    /\ Truthy(arg.item.unit_name) /\ Truthy(arg.item.unit)
    /\ arg.item.unit # arg.item.unit_name
    /\ \E i \in 1..Len(arg.list) :
          /\ out[1].item.unit_id = arg.list[i].id
          /\ arg.list[i].abbreviation = S_empty
          /\ out[1].item.unit_name = arg.list[i].name
          /\ out[1].item.unit_name # arg.item.unit_name
          /\ out[1].item.unit_abbreviation = Null

\* ------------------------------------------------------------------------
\* C23
\* ------------------------------------------------------------------------

\* no two units of one company have names that are equal ignoring case
NoTwoAlike(tbl) ==
    \A i \in 1..Len(tbl), j \in 1..Len(tbl) :
        (i # j /\ tbl[i].company_id = tbl[j].company_id) =>
            ~EqIC(tbl[i].name, tbl[j].name)

\* C23: when no two units of a company have names equal ignoring case
\* before a Migration run, none have after it; and the units one run
\* creates for a company have names that differ pairwise ignoring case.
C23_NoDuplicateUnits ==
    last.job = "migrate" =>
        /\ NoTwoAlike(pre.units) => NoTwoAlike(units)
        /\ \A i \in (Len(pre.units) + 1)..Len(units),
              j \in (Len(pre.units) + 1)..Len(units) :
              (i # j /\ units[i].company_id = units[j].company_id) =>
                  ~EqIC(units[i].name, units[j].name)

\* two items of one BOQ carry tokens that differ in case only; the run
\* created one unit for the first and gave the second the same unit
C23_Witness ==
    /\ JobOk(last, "migrate")
    /\ \E p \in Positions(boqs), q \in Positions(boqs) :
          /\ p[1] = q[1] /\ Before(p, q)
          /\ ItemAt(pre.boqs, p).unit_id = NoId /\ ItemAt(pre.boqs, q).unit_id = NoId
          /\ EqIC(UnitToken(ItemAt(pre.boqs, p)), UnitToken(ItemAt(pre.boqs, q)))
          /\ UnitToken(ItemAt(pre.boqs, p)) # UnitToken(ItemAt(pre.boqs, q))
          /\ ItemAt(boqs, p).unit_id = ItemAt(boqs, q).unit_id
          /\ \E i \in (Len(pre.units) + 1)..Len(units) :
                units[i].id = ItemAt(boqs, p).unit_id

\* ------------------------------------------------------------------------
\* C24
\* ------------------------------------------------------------------------

\* C24: a Normalization run, successful or failed, leaves every item whose
\* unit_abbreviation is truthy as it was, in all four fields; a BOQ that has
\* only such items keeps its document and its updated_at.
C24_NormalizationFrame ==
    last.job = "normalize" =>
        /\ \A p \in Positions(boqs) :
              Truthy(ItemAt(pre.boqs, p).unit_abbreviation) =>
                  ItemAt(boqs, p) = ItemAt(pre.boqs, p)
        /\ \A b \in 1..Len(boqs) :
              (\A p \in Positions(pre.boqs) :
                   p[1] = b => Truthy(ItemAt(pre.boqs, p).unit_abbreviation))
                 => boqs[b] = pre.boqs[b]

\* a successful Normalization run wrote another BOQ and passed a BOQ whose
\* only item has an abbreviation and a unit_id naming a unit of another name
C24_Witness ==
    /\ JobOk(last, "normalize")
    /\ last.writes >= 1
    /\ \E p \in Positions(boqs) :
          /\ Truthy(ItemAt(pre.boqs, p).unit_abbreviation)
          /\ \E i \in 1..Len(pre.units) :
                /\ pre.units[i].company_id = CompanyAt(boqs, p)
                /\ pre.units[i].id = ItemAt(pre.boqs, p).unit_id
                /\ pre.units[i].name # ItemAt(pre.boqs, p).unit_name
          /\ \A q \in Positions(pre.boqs) :
                q[1] = p[1] => Truthy(ItemAt(pre.boqs, q).unit_abbreviation)
          /\ boqs[p[1]] = pre.boqs[p[1]]

\* ------------------------------------------------------------------------
\* C25 (under SpecDelete)
\* ------------------------------------------------------------------------

\* the item has a unit_id that names no unit of company c in the table
DanglingIn(item, c, tbl) ==
    /\ item.unit_id # NoId
    /\ \A i \in 1..Len(tbl) : ~(tbl[i].company_id = c /\ tbl[i].id = item.unit_id)

\* C25: a Migration or Normalization run leaves as it was every item that
\* has no unit_abbreviation and whose unit_id names no unit of its company,
\* whatever its unit_name and unit match, and the run exits 0.
C25_DanglingUntouched ==
    last.job \in {"migrate", "normalize"} =>
        /\ last.exit = 0
        /\ \A p \in Positions(boqs) :
              LET was == ItemAt(pre.boqs, p) IN
              (~Truthy(was.unit_abbreviation)
                 /\ DanglingIn(was, CompanyAt(pre.boqs, p), pre.units))
                  => ItemAt(boqs, p) = was

\* a unit was deleted while an item carried its id; a later Normalization
\* run met the item, whose legacy token matches another unit of the company
\* by name, and left it
C25_Witness ==
    /\ JobOk(last, "normalize")
    /\ \E p \in Positions(boqs) :
          LET was == ItemAt(pre.boqs, p) IN
          /\ ~Truthy(was.unit_abbreviation)
          /\ DanglingIn(was, CompanyAt(pre.boqs, p), pre.units)
          /\ \E i \in 1..Len(orig.units) :
                /\ orig.units[i].id = was.unit_id
                /\ orig.units[i].company_id = CompanyAt(pre.boqs, p)
          /\ \E i \in 1..Len(pre.units) :
                /\ pre.units[i].company_id = CompanyAt(pre.boqs, p)
                /\ EqIC(pre.units[i].name, UnitToken(was))
          /\ ItemAt(boqs, p) = was

\* ------------------------------------------------------------------------
\* C26 (under SpecNormalizeItem)
\* ------------------------------------------------------------------------

\* C26: for an item that has only a legacy unit token, the unit the
\* Normalization Runner gives the item is the unit the migration's resolver
\* selects for the token in the same list (a name match before an
\* abbreviation match), and none when the resolver finds none.
C26_SameUnitAsResolver ==
    out # <<>> =>
        LET m == MatchUnit(arg.list, arg.item.unit) IN
        IF m # 0 THEN out[1].item.unit_id = arg.list[m].id
        ELSE out[1].item.unit_id = NoId

\* ------------------------------------------------------------------------
\* C27 (under SpecDelete)
\* ------------------------------------------------------------------------

\* the item has none of the three display fields
NoDisplayText(item) ==
    ~Truthy(item.unit) /\ ~Truthy(item.unit_name) /\ ~Truthy(item.unit_abbreviation)

\* C27: after a Cleanup run an item that had unit_id, a legacy field and no
\* unit_abbreviation has none of unit, unit_name and unit_abbreviation; a
\* Normalization run gives an abbreviation to an item that has unit_id and
\* none of the three only if the unit_id names a unit of the item's company.
C27_CleanupBeforeAbbreviation ==
    /\ JobOk(last, "cleanup") =>
          \A p \in Positions(boqs) :
              LET was == ItemAt(pre.boqs, p) IN
              (was.unit_id # NoId /\ ~Truthy(was.unit_abbreviation)
                 /\ (Truthy(was.unit) \/ Truthy(was.unit_name)))
                  => NoDisplayText(ItemAt(boqs, p))
    /\ JobOk(last, "normalize") =>
          \A p \in Positions(boqs) :
              LET was == ItemAt(pre.boqs, p) IN
              (was.unit_id # NoId /\ NoDisplayText(was)
                 /\ Truthy(ItemAt(boqs, p).unit_abbreviation))
                  => ~DanglingIn(was, CompanyAt(pre.boqs, p), pre.units)

\* the cleanup stripped an item that had no abbreviation yet, the item's
\* unit was deleted, and the Normalization run that followed left the item
\* without any of the three fields
C27_Witness ==
    /\ JobOk(last, "normalize") /\ prev.job = "delete"
    /\ \E p \in Positions(boqs) :
          /\ Truthy(ItemAt(orig.boqs, p).unit)
          /\ \E i \in 1..Len(orig.units) :
                /\ orig.units[i].id = ItemAt(orig.boqs, p).unit_id
                /\ orig.units[i].company_id = CompanyAt(orig.boqs, p)
          /\ DanglingIn(ItemAt(boqs, p), CompanyAt(boqs, p), units)
          /\ NoDisplayText(ItemAt(boqs, p))

\* ------------------------------------------------------------------------
\* C28
\* ------------------------------------------------------------------------

\* unit_id set and both legacy fields absent
Cleaned(item) == item.unit_id # NoId /\ ~Truthy(item.unit) /\ ~Truthy(item.unit_name)

\* C28: an item from which a Cleanup run removed its legacy fields (it had
\* one before any job ran, and is cleaned when a Normalization run starts)
\* is still cleaned after that Normalization run.
C28_CleanedIsStable ==
    last.job = "normalize" =>
        \A p \in Positions(boqs) :
            (/\ Truthy(ItemAt(orig.boqs, p).unit) \/ Truthy(ItemAt(orig.boqs, p).unit_name)
             /\ Cleaned(ItemAt(pre.boqs, p)))
                => Cleaned(ItemAt(boqs, p))

\* ------------------------------------------------------------------------
\* C29 (under SpecOverlap)
\* ------------------------------------------------------------------------

\* a run of a job, alone, on given tables
Alone(u, b) ==
    [units |-> u, boqs |-> b, nextId |-> nextId, mem |-> <<>>,
     n |-> 0, failAt |-> 0, failed |-> FALSE]

NormalizedAlone(b) == ProcCompanies("normalize", Alone(units, b), 1).boqs
CleanedAlone(b) == ProcBoqs("cleanup", NoCompany, TRUE, Alone(units, b), 1).boqs

\* C29: when a Normalization run and a Cleanup run that overlapped have
\* both committed, every document is what the two jobs give when run one
\* after the other, in one order or the other.
C29_AsIfOneAfterTheOther ==
    (proc["normalize"].pc = "done" /\ proc["cleanup"].pc = "done") =>
        \A b \in 1..Len(boqs) :
            \/ boqs[b].data = CleanedAlone(NormalizedAlone(orig.boqs))[b].data
            \/ boqs[b].data = NormalizedAlone(CleanedAlone(orig.boqs))[b].data

\* ------------------------------------------------------------------------
\* C30 (under SpecTwo)
\* ------------------------------------------------------------------------

\* what one Migration run, alone, makes of the tables the two runs started on
MigratedAlone ==
    ProcCompanies("migrate",
        [units |-> orig.units, boqs |-> orig.boqs, nextId |-> Len(orig.units) + 1,
         mem |-> <<>>, n |-> 0, failAt |-> 0, failed |-> FALSE], 1)

\* C30: with two Migration runs at the same time, the units table never
\* holds two rows of one (company_id, name); a run whose INSERT the
\* constraint rejected has exited 1 and left nothing, and once both runs
\* ended the tables hold what the other run wrote: the units and the
\* documents of one Migration run.
C30_SecondInsertFails ==
    /\ \A i \in 1..Len(units), j \in 1..Len(units) :
          (i # j /\ units[i].company_id = units[j].company_id) =>
              units[i].name # units[j].name
    /\ \A s \in Runs :
          proc[s].violated =>
              /\ proc[s].pc = "done" /\ proc[s].exit = 1
              /\ proc[s].inserted = <<>> /\ proc[s].written = {}
              /\ proc[OtherRun(s)].pc = "done" =>
                    /\ proc[OtherRun(s)].exit = 0
                    /\ units = MigratedAlone.units
                    /\ \A b \in 1..Len(boqs) : boqs[b].data = MigratedAlone.boqs[b].data

\* both runs loaded the units before either committed, both went to create
\* the same unit; one committed it, the other was rejected
C30_Witness ==
    /\ proc["a"].pc = "done" /\ proc["b"].pc = "done"
    /\ proc["b"].violated /\ proc["b"].exit = 1
    /\ proc["a"].exit = 0
    /\ Len(units) > Len(orig.units)
    /\ \E b \in 1..Len(boqs) : boqs[b].updated_at > 0

====
